---- MODULE Spec2Model ----
(***************************************************************************)
(* A model of server.py of Minecomic: the metadata store (metadata.json    *)
(* behind metadata_lock), the LibraryCache, the /library listing, the      *)
(* metadata writers and the download worker.  Every request handler and    *)
(* every download worker is one thread; a thread runs one operation from   *)
(* "idle" to "done".  Strings that the code inspects character by          *)
(* character (folder names, item ids) are sequences of one-character       *)
(* strings.                                                                *)
(***************************************************************************)
EXTENDS Integers, Sequences, FiniteSets, TLC

(***************************************************************************)
(* Bounds of the model.                                                    *)
(***************************************************************************)
\* Requests served in all, clock advances, and items of a download batch.
MaxRequests == 3
MaxTicks == 2
MaxBatch == 2
\* Calls of log() by concurrent threads, after the lines logged before.
MaxLogCalls == 4

\* Two threads run at a time; a thread that has answered serves the next request.
Threads == {1, 2}

(***************************************************************************)
(* Program constants.                                                      *)
(***************************************************************************)
cache_duration == 300
LogCap == 100
\* time.time() is seconds since 1970: far more than cache_duration.
StartTime == 4 * cache_duration
\* The clock advances in steps of half the cache's lifetime.
TickStep == cache_duration \div 2

(***************************************************************************)
(* Characters and names.                                                   *)
(***************************************************************************)
Digits == {"0", "1", "2", "3", "4", "5", "6", "7", "8", "9"}
DigitVal ==
  [c \in Digits |->
     CASE c = "0" -> 0 [] c = "1" -> 1 [] c = "2" -> 2 [] c = "3" -> 3
       [] c = "4" -> 4 [] c = "5" -> 5 [] c = "6" -> 6 [] c = "7" -> 7
       [] c = "8" -> 8 [] c = "9" -> 9]
Whitespace == {" "}
Upper == {"A", "B", "C", "G", "J", "P", "T"}
Lower(c) ==
  CASE c = "A" -> "a" [] c = "B" -> "b" [] c = "C" -> "c" [] c = "G" -> "g"
    [] c = "J" -> "j" [] c = "P" -> "p" [] c = "T" -> "t" [] OTHER -> c
\* Code points of the characters the model uses.
Ord(c) ==
  CASE c = " " -> 32 [] c = "%" -> 37 [] c = "." -> 46 [] c = "/" -> 47
    [] c \in Digits -> 48 + DigitVal[c]
    [] c = "A" -> 65 [] c = "B" -> 66 [] c = "C" -> 67 [] c = "G" -> 71
    [] c = "J" -> 74 [] c = "P" -> 80 [] c = "T" -> 84 [] c = "\\" -> 92
    [] c = "a" -> 97 [] c = "b" -> 98 [] c = "c" -> 99 [] c = "f" -> 102
    [] c = "g" -> 103 [] c = "i" -> 105 [] c = "j" -> 106 [] c = "n" -> 110
    [] c = "p" -> 112 [] c = "t" -> 116 [] c = "x" -> 120 [] c = "y" -> 121

\* str.lower() of a whole string.
RECURSIVE LowerStr(_)
LowerStr(s) == IF s = <<>> THEN <<>> ELSE <<Lower(Head(s))>> \o LowerStr(Tail(s))

\* natural_key: re.split(r'(\d+)', s) alternates non-digit runs (odd places,
\* lowercased, possibly empty) and digit runs (even places, as integers).
RECURSIVE NaturalKeyFold(_, _)
NaturalKeyFold(s, toks) ==
  IF s = <<>> THEN toks
  ELSE LET c == Head(s)
           n == Len(toks)
       IN  IF c \in Digits
           THEN IF n % 2 = 0
                THEN NaturalKeyFold(Tail(s), [toks EXCEPT ![n] = @ * 10 + DigitVal[c]])
                ELSE NaturalKeyFold(Tail(s), Append(toks, DigitVal[c]))
           ELSE IF n % 2 = 1
                THEN NaturalKeyFold(Tail(s), [toks EXCEPT ![n] = Append(@, Lower(c))])
                ELSE NaturalKeyFold(Tail(s), Append(toks, <<Lower(c)>>))

natural_key(s) ==
  LET t == NaturalKeyFold(s, << <<>> >>)
  IN  IF Len(t) % 2 = 0 THEN Append(t, <<>>) ELSE t

\* Python's < on two strings: by code point, a proper prefix first.
RECURSIVE StrLess(_, _)
StrLess(a, b) ==
  IF b = <<>> THEN FALSE
  ELSE IF a = <<>> THEN TRUE
  ELSE IF Head(a) = Head(b) THEN StrLess(Tail(a), Tail(b))
  ELSE Ord(Head(a)) < Ord(Head(b))

\* Python's < on two natural keys (lists): element by element, the places
\* aligned (strings at odd places, integers at even places).
RECURSIVE KeyLessFrom(_, _, _)
KeyLessFrom(k1, k2, i) ==
  IF i > Len(k2) THEN FALSE
  ELSE IF i > Len(k1) THEN TRUE
  ELSE IF k1[i] = k2[i] THEN KeyLessFrom(k1, k2, i + 1)
  ELSE IF i % 2 = 1 THEN StrLess(k1[i], k2[i]) ELSE k1[i] < k2[i]

KeyLess(k1, k2) == KeyLessFrom(k1, k2, 1)

\* sorted(names, key=natural_key) of a set of distinct-keyed names.
RECURSIVE SortNatural(_)
SortNatural(S) ==
  IF S = {} THEN <<>>
  ELSE LET m == CHOOSE x \in S :
                  \A y \in S \ {x} : ~KeyLess(natural_key(y), natural_key(x))
       IN  <<m>> \o SortNatural(S \ {m})

\* sorted(names) by plain string comparison, without natural_key.
RECURSIVE SortPlain(_)
SortPlain(S) ==
  IF S = {} THEN <<>>
  ELSE LET m == CHOOSE x \in S : \A y \in S \ {x} : ~StrLess(y, x)
       IN  <<m>> \o SortPlain(S \ {m})

\* str.endswith(suffix)
EndsWith(s, suffix) ==
  /\ Len(s) >= Len(suffix)
  /\ SubSeq(s, Len(s) - Len(suffix) + 1, Len(s)) = suffix

(***************************************************************************)
(* urllib.parse.quote: letters, digits, "_.-~" and "/" stay, every other   *)
(* character becomes "%" and the two upper-case hex digits of its code.    *)
(***************************************************************************)
Chars ==
  Digits \cup Upper \cup
  {" ", "%", ".", "/", "\\", "a", "b", "c", "f", "g", "i", "j", "n", "p", "t",
   "x", "y"}
HexDigits ==
  <<"0", "1", "2", "3", "4", "5", "6", "7", "8", "9", "A", "B", "C", "D", "E", "F">>
AlwaysSafe(c) ==
  \/ c \in Digits
  \/ c \in {"_", ".", "-", "~", "/"}
  \/ Ord(c) \in 65..90
  \/ Ord(c) \in 97..122
PercentEncode(c) == <<"%", HexDigits[(Ord(c) \div 16) + 1], HexDigits[(Ord(c) % 16) + 1]>>

RECURSIVE quote(_)
quote(s) ==
  IF s = <<>> THEN <<>>
  ELSE (IF AlwaysSafe(Head(s)) THEN <<Head(s)>> ELSE PercentEncode(Head(s)))
       \o quote(Tail(s))

\* urllib.parse.unquote, by which the static file mount resolves a URL path.
HexVal(c) == CHOOSE n \in 0..15 : HexDigits[n + 1] = c
Chr(code) == CHOOSE c \in Chars : Ord(c) = code
RECURSIVE unquote(_)
unquote(s) ==
  IF s = <<>> THEN <<>>
  ELSE IF Head(s) = "%" /\ Len(s) >= 3
       THEN <<Chr(HexVal(s[2]) * 16 + HexVal(s[3]))>> \o unquote(SubSeq(s, 4, Len(s)))
       ELSE <<Head(s)>> \o unquote(Tail(s))

(***************************************************************************)
(* Dictionaries: a dict is a function on the set of its keys.              *)
(***************************************************************************)
EmptyDict == [k \in {} |-> k]
DictGet(d, k, default) == IF k \in DOMAIN d THEN d[k] ELSE default
DictPut(d, k, v) == [x \in (DOMAIN d) \cup {k} |-> IF x = k THEN v ELSE d[x]]
\* dict.update(other)
DictUpdate(d, other) ==
  [x \in (DOMAIN d) \cup (DOMAIN other) |-> IF x \in DOMAIN other THEN other[x] ELSE d[x]]

(***************************************************************************)
(* The bounded inputs.                                                     *)
(***************************************************************************)
NameA == <<"a">>
NameB == <<"b">>
ChapterNames == {<<"c", "2">>, <<"c", "1", "0">>}
TitleX == <<"x">>
TitleY == <<"y">>
AlbumTitle == <<"T">>
FolderNames == {NameA, NameB}

\* Request bodies of /update_metadata ("id" may be missing or empty).
UpdateBodies ==
  { [k \in {"id", "title"} |-> IF k = "id" THEN NameA ELSE TitleX],
    [k \in {"id", "readCount"} |-> IF k = "id" THEN NameA ELSE 2],
    [k \in {"id", "title"} |-> IF k = "id" THEN NameB ELSE TitleY],
    [k \in {"id", "title"} |-> IF k = "id" THEN <<>> ELSE TitleY],
    [k \in {"title"} |-> TitleY] }

\* The sequences over S of length up to n.
RECURSIVE SeqsUpTo(_, _)
SeqsUpTo(S, n) ==
  IF n = 0 THEN {<<>>}
  ELSE LET shorter == SeqsUpTo(S, n - 1)
       IN  shorter \cup {Append(q, x) : q \in shorter, x \in S}

\* Request bodies of /update_metadata_batch: up to MaxBatch items, the same
\* id twice and items without id included.
BatchItems ==
  { [k \in {"id", "title"} |-> IF k = "id" THEN NameA ELSE TitleX],
    [k \in {"id", "readCount"} |-> IF k = "id" THEN NameA ELSE 2],
    [k \in {"id", "readCount"} |-> IF k = "id" THEN NameB ELSE 2],
    [k \in {"title"} |-> TitleY] }
BatchBodies == SeqsUpTo(BatchItems, MaxBatch)

\* Items of a download batch: an album with a blank before it, a photo
\* ("p" prefix), and a blank item.
RawItems == {<<" ", "a">>, <<"P", "a">>, <<" ">>}
AlbumIdLists == SeqsUpTo(RawItems, MaxBatch)

\* Request bodies of /delete_manga.
DeleteNames == {NameA, NameB, <<".", ".">>, <<"a", "/", "b">>}

\* xiangxi.txt of a content folder: absent; present but not parsable as
\* JSON; or parsable, with the values of its keys (<<>> for a key it lacks).
NoSidecar ==
  [exists |-> FALSE, parsable |-> FALSE, id |-> <<>>, title |-> <<>>,
   author |-> <<>>, keywords |-> <<>>, tags |-> <<>>]
BrokenSidecar == [NoSidecar EXCEPT !.exists = TRUE]
\* The sidecar the download worker writes for album (id, title).
SidecarOf(id, title) ==
  [exists |-> TRUE, parsable |-> TRUE, id |-> id, title |-> title,
   author |-> <<"J">>, keywords |-> <<"k1", "k2">>, tags |-> <<"k2", "t1">>]

\* Entries of a chapter folder: files with and without a recognized image
\* suffix, and a directory named like an image.
File(name) == [name |-> name, is_file |-> TRUE]
Image2 == <<"2", ".", "j", "p", "g">>
Image10 == <<"1", "0", ".", "J", "P", "G">>
ImageSpace == <<"3", " ", ".", "g", "i", "f">>
NoFiles == {}
OneImage == {File(Image2)}
OnlyText == {File(<<"n", ".", "t", "x", "t">>)}
Pictures ==
  { File(Image2), File(Image10), File(<<"n", ".", "t", "x", "t">>),
    [name |-> <<"1", ".", "p", "n", "g">>, is_file |-> FALSE] }
Spaced == {File(ImageSpace)}

\* Entries of a content folder: chapter directories, and plain files.
ChapterDir(files) == [is_dir |-> TRUE, files |-> files]
PlainFile == [is_dir |-> FALSE, files |-> {}]
\* A content folder whose chapter directories hold one image each.
FolderOf(sidecar, chapters) ==
  [sidecar |-> sidecar, subs |-> [c \in chapters |-> ChapterDir(OneImage)]]
\* The names of its chapter directories.
ChapterDirs(folder) == {n \in DOMAIN folder.subs : folder.subs[n].is_dir}

\* The download root at start: empty, or one content folder.
InitFolders ==
  { EmptyDict,
    [n \in {NameA} |-> FolderOf(NoSidecar, ChapterNames)] }

\* Content folders for the scans: any of the chapter directories with any of
\* the contents, beside a plain file that sorts before them; with no sidecar
\* or an unparsable one, or under a name with a blank with the sidecar the
\* worker writes.
NameSpaced == <<"b", " ">>
TopFile == <<"c", "1">>
ChapterContents == {NoFiles, OnlyText, Pictures, Spaced}
ScanSubs ==
  UNION { { [n \in D \cup {TopFile} |->
               IF n \in D THEN ChapterDir(a[n]) ELSE PlainFile] :
            a \in [D -> ChapterContents] } :
          D \in SUBSET ChapterNames }
ScanSidecars == {NoSidecar, BrokenSidecar, SidecarOf(<<"7">>, AlbumTitle)}
ScanFolders ==
  { [n \in {IF sc.parsable THEN NameSpaced ELSE NameA} |->
       [sidecar |-> sc, subs |-> subs]] :
      sc \in ScanSidecars, subs \in ScanSubs }

\* Query strings of /manga_detail.
DetailIds == {NameA, NameB, NameSpaced}

\* metadata.json at start: absent, or holding one record.
InitMetafiles ==
  { [state |-> "absent", data |-> EmptyDict],
    [state |-> "ok",
     data |-> [i \in {NameA} |->
                 [k \in {"title", "readCount"} |-> IF k = "title" THEN TitleY ELSE 1]]] }

(***************************************************************************)
(* State.                                                                  *)
(***************************************************************************)
VARIABLES
  pc,             \* pc[t]: where thread t is in its handler
  loc,            \* loc[t]: the locals of thread t
  metafile,       \* METADATA_FILE
  fs,             \* DOWNLOAD_DIR: folder name -> folder
  root,           \* whether DOWNLOAD_DIR itself exists
  cache,          \* library_cache: data, last_updated
  metadata_lock,  \* holder of metadata_lock, 0 when free
  cache_lock,     \* holder of library_cache.lock, 0 when free
  now,            \* time.time()
  ticks,          \* clock advances so far
  requests,       \* requests accepted so far
  server_logs,    \* the log buffer, newest first
  log_lock,       \* holder of log_lock, 0 when free
  gh              \* history variables, read by the properties only

vars ==
  <<pc, loc, metafile, fs, root, cache, metadata_lock, cache_lock, now, ticks,
    requests, server_logs, log_lock, gh>>

NoTag == [metaSeen |-> 0, fsSeen |-> 0, setAt |-> 0, clearsSeen |-> 0]

\* History of one get(): the cache it found (stamp, data), whether a set()
\* or clear() was under way then (quiet = none), and the number of set() and
\* clear() calls begun when it started and when it returned.
NoSeen == [quiet |-> FALSE, begun |-> 0, ended |-> 0, stamp |-> 0, data |-> <<>>]

InitLoc ==
  [ op |-> "none",
    req |-> EmptyDict,        \* body of /update_metadata
    refresh |-> FALSE,        \* /library?refresh
    all_meta |-> EmptyDict,   \* the handler's all_meta / all_metadata
    mangas |-> <<>>,          \* the list being built
    cached |-> <<>>,          \* what library_cache.get() returned
    gotNone |-> TRUE,         \* get() returned None
    ret |-> "none",           \* where clear() returns to
    updates |-> <<>>,         \* body of /update_metadata_batch
    count |-> 0,              \* updated_count / count
    manga_name |-> <<>>,      \* body of /delete_manga
    id |-> <<>>,              \* query of /manga_detail
    manga_data |-> EmptyDict, \* the entry get_manga_detail returns
    entry |-> <<>>,           \* the line log() has formatted
    album_ids |-> <<>>,       \* the batch of the download worker
    idx |-> 0,                \* items the for loop has taken from album_ids
    item_id |-> <<>>,         \* item_id, stripped
    trace |-> <<>>,           \* history: the worker's steps, in order
    result |-> <<>>,          \* the list a listing returned
    status |-> 0,             \* HTTP status of the response, 0 = none yet
    tag |-> NoTag,            \* history: what the list was computed from
    need |-> NoTag,           \* history: the mutations finished at the start
    getNow |-> 0,             \* history: time.time() in get()
    getClears |-> 0,          \* history: clears completed as get() started
    seen |-> NoSeen,          \* history: the cache as get() started
    own |-> EmptyDict,        \* history: the keys sync_manga_names itself sets
    before |-> EmptyDict,     \* history: the store update_metadata loaded
    myMeta |-> 0,             \* history: this handler's last metadata commit
    myFs |-> 0 ]              \* history: this handler's last folder commit

InitGh ==
  [ metaCommits |-> 0, fsCommits |-> 0, clears |-> 0, begun |-> 0,
    doneMeta |-> 0, doneFs |-> 0, cacheTag |-> NoTag, expect |-> EmptyDict,
    crashed |-> FALSE, complete |-> {}, logCalls |-> 0, appended |-> <<>> ]

\* The state after start, the content of DOWNLOAD_DIR aside.
InitExceptFolders ==
  /\ pc = [t \in Threads |-> "idle"]
  /\ root = TRUE
  /\ loc = [t \in Threads |-> InitLoc]
  /\ metafile \in InitMetafiles
  /\ cache = [data |-> <<>>, last_updated |-> 0]
  /\ metadata_lock = 0
  /\ cache_lock = 0
  /\ log_lock = 0
  /\ now = StartTime
  /\ ticks = 0
  /\ requests = 0
  /\ server_logs = <<>>
  /\ gh = [InitGh EXCEPT !.expect = IF metafile.state = "ok" THEN metafile.data
                                     ELSE EmptyDict]

Init == fs \in InitFolders /\ InitExceptFolders

Max(a, b) == IF a >= b THEN a ELSE b

(***************************************************************************)
(* The metadata file.                                                      *)
(***************************************************************************)
\* An absent or unparsable file loads as {}.
load_all_metadata_internal(f) == IF f.state = "ok" THEN f.data ELSE EmptyDict

\* json.dump of a dict with string keys, read back by json.load, is that dict.
save_all_metadata_internal(data) == [state |-> "ok", data |-> data]

\* The record replaced by the request's keys instead of merged with them.
ReplaceKeys(record, data) == [k \in (DOMAIN data) \ {"id"} |-> data[k]]
\* for k, v in data.items(): if k != "id": record[k] = v
MergeKeys(record, data) ==
  [k \in (DOMAIN record) \cup ((DOMAIN data) \ {"id"}) |->
     IF k \in (DOMAIN data) \ {"id"} THEN data[k] ELSE record[k]]

\* if manga_id not in all_meta: all_meta[manga_id] = {}; then the key loop
UpsertRecord(all_meta, manga_id, data) ==
  DictPut(all_meta, manga_id,
          MergeKeys(DictGet(all_meta, manga_id, EmptyDict), data))

\* if not manga_id: a missing id and an empty id are both rejected.
HasId(data) == "id" \in DOMAIN data /\ data["id"] # <<>>

\* The loop over req.updates: the store and updated_count after it.
RECURSIVE BatchLoop(_, _, _)
BatchLoop(updates, all_meta, updated_count) ==
  IF updates = <<>> THEN [all_meta |-> all_meta, updated_count |-> updated_count]
  ELSE LET item == Head(updates)
       IN  IF ~HasId(item)
           THEN BatchLoop(Tail(updates), all_meta, updated_count)
           ELSE BatchLoop(Tail(updates), UpsertRecord(all_meta, item["id"], item),
                          updated_count + 1)

(***************************************************************************)
(* The catalog scan.                                                       *)
(***************************************************************************)
\* f.name.lower().endswith(('.jpg', '.jpeg', '.png', '.webp', '.gif'))
ImageSuffixes ==
  { <<".", "j", "p", "g">>, <<".", "j", "p", "e", "g">>, <<".", "p", "n", "g">>,
    <<".", "w", "e", "b", "p">>, <<".", "g", "i", "f">> }
IsImageName(name) == \E suffix \in ImageSuffixes : EndsWith(LowerStr(name), suffix)

\* The image names sorted as plain strings.
ImagesPlainOrder(files) ==
  SortPlain({f.name : f \in {g \in files : g.is_file /\ IsImageName(g.name)}})
\* images: the names of the files of a chapter folder with an image suffix,
\* sorted by natural_key.
Images(files) ==
  SortNatural({f.name : f \in {g \in files : g.is_file /\ IsImageName(g.name)}})

base_url == "http://localhost:8000/files"
\* f"{base_url}/{manga_path_enc}/{chapter_name_enc}/{quote(img)}"
FileUrl(folder_name, chapter_name, img) ==
  <<base_url, "/">> \o quote(folder_name) \o <<"/">> \o quote(chapter_name)
    \o <<"/">> \o quote(img)

\* Every chapter taken for the first one.
IsAnyChapter(sub_dirs, i) == TRUE
\* is_first_chapter = (chapter_entry == sub_dirs[0])
IsFirstChapter(sub_dirs, i) == sub_dirs[i] = sub_dirs[1]

\* The images the loop reads for chapter i: only with full_scan or for the
\* first chapter.
ChapterImages(folder, sub_dirs, i, full_scan) ==
  IF full_scan \/ IsFirstChapter(sub_dirs, i)
  THEN Images(folder.subs[sub_dirs[i]].files)
  ELSE <<>>

\* pages of chapter i: filled only with full_scan.
ChapterPages(folder_name, folder, sub_dirs, i, full_scan) ==
  LET images == ChapterImages(folder, sub_dirs, i, full_scan)
  IN  IF full_scan
      THEN [k \in 1..Len(images) |->
              [name |-> images[k],
               url |-> FileUrl(folder_name, sub_dirs[i], images[k])]]
      ELSE <<>>

\* The loop over sub_dirs from chapter i on: chapters and cover_url.
RECURSIVE ChapterLoop(_, _, _, _, _, _, _)
ChapterLoop(folder_name, folder, sub_dirs, i, full_scan, chapters, cover_url) ==
  IF i > Len(sub_dirs) THEN [chapters |-> chapters, cover_url |-> cover_url]
  ELSE LET images == ChapterImages(folder, sub_dirs, i, full_scan)
           cover == IF ~full_scan /\ IsFirstChapter(sub_dirs, i) /\ images # <<>>
                    THEN FileUrl(folder_name, sub_dirs[i], images[1])
                    ELSE cover_url
           chapter == [id |-> sub_dirs[i], title |-> sub_dirs[i],
                       pages |-> ChapterPages(folder_name, folder, sub_dirs, i,
                                              full_scan)]
       IN  ChapterLoop(folder_name, folder, sub_dirs, i + 1, full_scan,
                       Append(chapters, chapter), cover)

\* sum(len(c['pages']) for c in chapters)
RECURSIVE SumPages(_)
SumPages(chapters) ==
  IF chapters = <<>> THEN 0 ELSE Len(Head(chapters).pages) + SumPages(Tail(chapters))

\* An entry returned whatever the chapters.
AnyChapters(chapters) == TRUE
\* if not chapters: return None
HasChapters(chapters) == chapters # <<>>

Unknown == <<"U">>
\* extra_info after the sidecar has been read: the defaults when it is
\* absent or unparsable.
ExtraInfo(sc) ==
  IF sc.exists /\ sc.parsable
  THEN [id |-> sc.id, title |-> sc.title,
        author |-> IF sc.author # <<>> THEN sc.author ELSE Unknown,
        keywords |-> sc.keywords]
  ELSE [id |-> <<>>, title |-> <<>>, author |-> Unknown, keywords |-> <<>>]

\* parse_manga_folder(entry, full_scan): the entry, or none ("if not
\* chapters: return None") for a folder without chapter subfolders.
parse_manga_folder(name, folder, full_scan) ==
  LET extra_info == ExtraInfo(folder.sidecar)
      manga_id == IF extra_info.id # <<>> THEN extra_info.id ELSE name
      manga_title == IF extra_info.title # <<>> THEN extra_info.title ELSE name
      sub_dirs == SortNatural(ChapterDirs(folder))
      loop == ChapterLoop(name, folder, sub_dirs, 1, full_scan, <<>>, <<>>)
      total_pages == IF full_scan THEN SumPages(loop.chapters) ELSE 0
  IN  [ some |-> HasChapters(loop.chapters),
        entry |-> [id |-> manga_id, title |-> manga_title,
                   coverUrl |-> loop.cover_url, chapters |-> loop.chapters,
                   totalPages |-> total_pages, sourceId |-> name,
                   isFullDetails |-> full_scan, author |-> extra_info.author,
                   keywords |-> extra_info.keywords] ]

\* The merge of scan_library: title only when the record has one, readCount
\* with its default (isPinned, lastReadAt, collectionIds follow readCount).
MergeMeta(entry, all_metadata) ==
  LET meta == DictGet(all_metadata, entry.id, EmptyDict)
  IN  [ id |-> entry.id,
        title |-> IF "title" \in DOMAIN meta THEN meta["title"] ELSE entry.title,
        coverUrl |-> entry.coverUrl,
        chapters |-> entry.chapters,
        totalPages |-> entry.totalPages,
        sourceId |-> entry.sourceId,
        isFullDetails |-> entry.isFullDetails,
        author |-> entry.author,
        keywords |-> entry.keywords,
        readCount |-> DictGet(meta, "readCount", 0) ]

RECURSIVE ScanEntries(_, _, _)
ScanEntries(names, folders, all_metadata) ==
  IF names = <<>> THEN <<>>
  ELSE LET p == parse_manga_folder(Head(names), folders[Head(names)], FALSE)
           rest == ScanEntries(Tail(names), folders, all_metadata)
       IN  IF p.some THEN <<MergeMeta(p.entry, all_metadata)>> \o rest ELSE rest

\* The loop of scan_library over the sorted entries of DOWNLOAD_DIR.
ScanAll(folders, all_metadata) ==
  ScanEntries(SortNatural(DOMAIN folders), folders, all_metadata)

(***************************************************************************)
(* Steps shared by the handlers.                                           *)
(***************************************************************************)
Goto(t, label) == pc' = [pc EXCEPT ![t] = label]

\* History: step ev of the item at place i of a batch.
Event(i, ev) == [i |-> i, ev |-> ev]

\* Threads are interchangeable request slots: a request is served by the
\* lowest-numbered idle one.
Accept(t) ==
  /\ pc[t] = "idle"
  /\ \A u \in Threads : u < t => pc[u] # "idle"
  /\ requests < MaxRequests
  /\ requests' = requests + 1

\* The response has been sent (or the worker has ended): the thread is free.
Finish(t) ==
  /\ pc[t] = "done"
  /\ pc' = [pc EXCEPT ![t] = "idle"]
  /\ loc' = [loc EXCEPT ![t] = InitLoc]
  /\ UNCHANGED <<metafile, fs, root, cache, metadata_lock, cache_lock, now, ticks,
                 requests, server_logs, log_lock, gh>>

\* time.time() advances.
Tick ==
  /\ ticks < MaxTicks
  /\ now' = now + TickStep
  /\ ticks' = ticks + 1
  /\ UNCHANGED <<pc, loc, metafile, fs, root, cache, metadata_lock, cache_lock,
                 requests, server_logs, log_lock, gh>>

(***************************************************************************)
(* LibraryCache.  set() and clear() hold self.lock over their two          *)
(* assignments; get() takes no lock and reads the fields one by one.       *)
(***************************************************************************)
\* clear(): with self.lock: self.data = []
ClearData(c) == [c EXCEPT !.data = <<>>]
\* clear(): self.last_updated = 0
ClearStamp(c) == [c EXCEPT !.last_updated = 0]

CacheClear1(t) ==
  /\ pc[t] = "clear1"
  /\ cache_lock = 0
  /\ cache_lock' = t
  /\ cache' = ClearData(cache)
  /\ gh' = [gh EXCEPT !.cacheTag = NoTag, !.begun = @ + 1]
  /\ Goto(t, "clear2")
  /\ UNCHANGED <<loc, metafile, fs, root, metadata_lock, now, ticks, requests,
                 server_logs, log_lock>>

\* clear() left with self.lock still held.
CacheLockKept(t) == t
\* The end of the with self.lock block of clear(): nobody holds the lock.
CacheLockReleased(t) == 0

CacheClear2(t) ==
  /\ pc[t] = "clear2"
  /\ cache_lock = t
  /\ cache' = ClearStamp(cache)
  /\ cache_lock' = CacheLockReleased(t)
  /\ gh' = [gh EXCEPT !.clears = @ + 1]
  /\ loc' = [loc EXCEPT ![t].trace =
               IF loc[t].op = "run_download_task"
               THEN Append(@, Event(IF loc[t].ret = "w_batch_log"
                                    THEN Len(loc[t].album_ids) + 1
                                    ELSE loc[t].idx, "clear"))
               ELSE @]
  /\ Goto(t, loc[t].ret)
  /\ UNCHANGED <<metafile, fs, root, metadata_lock, now, ticks, requests,
                 server_logs, log_lock>>

\* set(): with self.lock: self.data = data
SetData(c, data) == [c EXCEPT !.data = data]
\* set(): self.last_updated = time.time()
SetStamp(c, time) == [c EXCEPT !.last_updated = time]

CacheSet1(t) ==
  /\ pc[t] = "set1"
  /\ cache_lock = 0
  /\ cache_lock' = t
  /\ cache' = SetData(cache, loc[t].mangas)
  /\ gh' = [gh EXCEPT !.cacheTag =
                 [loc[t].tag EXCEPT !.setAt = now, !.clearsSeen = gh.clears],
                       !.begun = @ + 1]
  /\ Goto(t, "set2")
  /\ UNCHANGED <<loc, metafile, fs, root, metadata_lock, now, ticks, requests,
                 server_logs, log_lock>>

\* The second assignment of set(); scan_library then returns the list.
CacheSet2(t) ==
  /\ pc[t] = "set2"
  /\ cache_lock = t
  /\ cache' = SetStamp(cache, now)
  /\ cache_lock' = 0
  /\ gh' = [gh EXCEPT !.cacheTag.setAt = now]
  /\ loc' = [loc EXCEPT ![t].result = loc[t].mangas, ![t].status = 200]
  /\ Goto(t, "done")
  /\ UNCHANGED <<metafile, fs, root, metadata_lock, now, ticks, requests,
                 server_logs, log_lock>>

\* The comparison turned round.
IsFreshReversed(c, time) == time - c.last_updated > cache_duration
\* A list exactly cache_duration old still served.
IsFreshInclusive(c, time) == time - c.last_updated <= cache_duration
\* get(): time.time() - self.last_updated < self.cache_duration
IsFresh(c, time) == time - c.last_updated < cache_duration

CacheGet1(t) ==
  /\ pc[t] = "get1"
  /\ loc' = [loc EXCEPT ![t].getNow = now, ![t].getClears = gh.clears,
                        ![t].seen = [quiet |-> cache_lock = 0,
                                     begun |-> gh.begun, ended |-> gh.begun,
                                     stamp |-> cache.last_updated,
                                     data |-> cache.data]]
  /\ Goto(t, IF IsFresh(cache, now) THEN "get2" ELSE "scan_load")
  /\ UNCHANGED <<metafile, fs, root, cache, metadata_lock, cache_lock, now, ticks,
                 requests, server_logs, log_lock, gh>>

\* get(): ... and self.data
CacheGet2(t) ==
  /\ pc[t] = "get2"
  /\ Goto(t, IF cache.data # <<>> THEN "get3" ELSE "scan_load")
  /\ loc' = [loc EXCEPT ![t].seen.ended = gh.begun]
  /\ UNCHANGED <<metafile, fs, root, cache, metadata_lock, cache_lock, now,
                 ticks, requests, server_logs, log_lock, gh>>

\* if cached and not refresh: return {"mangas": cached}
ServesCached(cached, refresh) == cached # <<>> /\ ~refresh

\* get(): return self.data; scan_library then serves it or scans.
CacheGet3(t) ==
  /\ pc[t] = "get3"
  /\ IF ServesCached(cache.data, loc[t].refresh)
     THEN /\ loc' = [loc EXCEPT ![t].cached = cache.data, ![t].gotNone = FALSE,
                                ![t].tag = gh.cacheTag,
                                ![t].seen.ended = gh.begun,
                                ![t].result = cache.data, ![t].status = 200]
          /\ Goto(t, "done")
     ELSE /\ loc' = [loc EXCEPT ![t].cached = cache.data, ![t].gotNone = FALSE,
                                ![t].tag = gh.cacheTag,
                                ![t].seen.ended = gh.begun]
          /\ Goto(t, "scan_load")
  /\ UNCHANGED <<metafile, fs, root, cache, metadata_lock, cache_lock, now, ticks,
                 requests, server_logs, log_lock, gh>>

(***************************************************************************)
(* GET /library: scan_library(refresh).                                    *)
(***************************************************************************)
StartScan(t, refresh) ==
  /\ Accept(t)
  /\ loc' = [loc EXCEPT ![t] =
               [InitLoc EXCEPT !.op = "scan_library", !.refresh = refresh,
                               !.ret = "get1",
                               !.need = [NoTag EXCEPT !.metaSeen = gh.doneMeta,
                                                      !.fsSeen = gh.doneFs]]]
  /\ Goto(t, IF refresh THEN "clear1" ELSE "get1")
  /\ UNCHANGED <<metafile, fs, root, cache, metadata_lock, cache_lock, now, ticks,
                 server_logs, log_lock, gh>>

\* if not os.path.exists(DOWNLOAD_DIR): return {"mangas": []}; else
\* with metadata_lock: all_metadata = load_all_metadata_internal()
ScanLoad(t) ==
  /\ pc[t] = "scan_load"
  /\ IF root
     THEN /\ metadata_lock = 0
          /\ loc' = [loc EXCEPT ![t].all_meta = load_all_metadata_internal(metafile),
                                ![t].tag = [NoTag EXCEPT !.metaSeen = gh.metaCommits]]
          /\ Goto(t, "scan_dir")
     ELSE /\ loc' = [loc EXCEPT ![t].result = <<>>, ![t].status = 200]
          /\ Goto(t, "done")
  /\ UNCHANGED <<metafile, fs, root, cache, metadata_lock, cache_lock, now, ticks,
                 requests, server_logs, log_lock, gh>>

\* The walk over DOWNLOAD_DIR, then library_cache.set(mangas); os.scandir
\* raises when DOWNLOAD_DIR has been removed meanwhile, and the handler
\* answers 500.
ScanDir(t) ==
  /\ pc[t] = "scan_dir"
  /\ IF root
     THEN /\ loc' = [loc EXCEPT ![t].mangas = ScanAll(fs, loc[t].all_meta),
                                ![t].tag.fsSeen = gh.fsCommits]
          /\ Goto(t, "set1")
     ELSE /\ loc' = [loc EXCEPT ![t].status = 500]
          /\ Goto(t, "done")
  /\ UNCHANGED <<metafile, fs, root, cache, metadata_lock, cache_lock, now, ticks,
                 requests, server_logs, log_lock, gh>>

\* The partial list stored all the same.
StoreAfterScanFailure == "set1"
\* except Exception: raise HTTPException(500): the handler ends.
AfterScanFailure == "done"

\* The first k members of q, all of q when it has fewer.
Prefix(q, k) == SubSeq(q, 1, IF k < Len(q) THEN k ELSE Len(q))

\* The walk raises after k entries have been collected: "Scan failed".
ScanFail(t, k) ==
  /\ pc[t] = "scan_dir"
  /\ loc' = [loc EXCEPT ![t].mangas = Prefix(ScanAll(fs, loc[t].all_meta), k),
                        ![t].tag.fsSeen = gh.fsCommits,
                        ![t].status = 500]
  /\ Goto(t, AfterScanFailure)
  /\ UNCHANGED <<metafile, fs, root, cache, metadata_lock, cache_lock, now, ticks,
                 requests, server_logs, log_lock, gh>>

(***************************************************************************)
(* GET /manga_detail: get_manga_detail(id).                                *)
(***************************************************************************)
StartDetail(t, id) ==
  /\ Accept(t)
  /\ loc' = [loc EXCEPT ![t] =
               [InitLoc EXCEPT !.op = "get_manga_detail", !.id = id,
                               !.status = IF id \in DOMAIN fs THEN 0 ELSE 404]]
  /\ Goto(t, IF id \in DOMAIN fs THEN "detail_parse" ELSE "done")
  /\ UNCHANGED <<metafile, fs, root, cache, metadata_lock, cache_lock, now, ticks,
                 server_logs, log_lock, gh>>

\* parse_manga_folder(entry, full_scan=True); none (also for a folder
\* deleted meanwhile, whose scandir raises) is answered with 500.
DetailParse(t) ==
  /\ pc[t] = "detail_parse"
  /\ LET id == loc[t].id
         found == id \in DOMAIN fs /\ parse_manga_folder(id, fs[id], TRUE).some
     IN  IF found
         THEN /\ loc' = [loc EXCEPT ![t].manga_data =
                                      parse_manga_folder(id, fs[id], TRUE).entry]
              /\ Goto(t, "detail_load")
         ELSE /\ loc' = [loc EXCEPT ![t].status = 500]
              /\ Goto(t, "done")
  /\ UNCHANGED <<metafile, fs, root, cache, metadata_lock, cache_lock, now, ticks,
                 requests, server_logs, log_lock, gh>>

\* with metadata_lock: all_meta = load_all_metadata_internal(); the merge.
DetailLoad(t) ==
  /\ pc[t] = "detail_load"
  /\ metadata_lock = 0
  /\ loc' = [loc EXCEPT ![t].all_meta = load_all_metadata_internal(metafile),
                        ![t].manga_data =
                           MergeMeta(@, load_all_metadata_internal(metafile)),
                        ![t].status = 200]
  /\ Goto(t, "done")
  /\ UNCHANGED <<metafile, fs, root, cache, metadata_lock, cache_lock, now, ticks,
                 requests, server_logs, log_lock, gh>>

(***************************************************************************)
(* POST /update_metadata.                                                  *)
(***************************************************************************)
StartUpdateMetadata(t, data) ==
  /\ Accept(t)
  /\ IF HasId(data)
     THEN /\ loc' = [loc EXCEPT ![t] =
                       [InitLoc EXCEPT !.op = "update_metadata", !.req = data]]
          /\ Goto(t, "upd_lock")
     ELSE /\ loc' = [loc EXCEPT ![t] =
                       [InitLoc EXCEPT !.op = "update_metadata", !.req = data,
                                       !.status = 400]]
          /\ Goto(t, "done")
  /\ UNCHANGED <<metafile, fs, root, cache, metadata_lock, cache_lock, now, ticks,
                 server_logs, log_lock, gh>>

\* with metadata_lock: load, create the record when absent, merge the keys.
UpdLock(t) ==
  /\ pc[t] = "upd_lock"
  /\ metadata_lock = 0
  /\ metadata_lock' = t
  /\ loc' = [loc EXCEPT ![t].all_meta =
               UpsertRecord(load_all_metadata_internal(metafile),
                            loc[t].req["id"], loc[t].req),
                        ![t].before = load_all_metadata_internal(metafile)]
  /\ Goto(t, "upd_save")
  /\ UNCHANGED <<metafile, fs, root, cache, cache_lock, now, ticks, requests,
                 server_logs, log_lock, gh>>

\* save_all_metadata_internal(all_meta), then library_cache.clear().
UpdSave(t) ==
  /\ pc[t] = "upd_save"
  /\ metafile' = save_all_metadata_internal(loc[t].all_meta)
  /\ gh' = [gh EXCEPT !.metaCommits = @ + 1,
                      !.expect = IF loc[t].op = "update_metadata"
                                 THEN UpsertRecord(@, loc[t].req["id"], loc[t].req)
                                 ELSE BatchLoop(loc[t].updates, @, 0).all_meta]
  /\ loc' = [loc EXCEPT ![t].myMeta = gh.metaCommits + 1, ![t].ret = "upd_ret"]
  /\ Goto(t, "clear1")
  /\ UNCHANGED <<fs, root, cache, metadata_lock, cache_lock, now, ticks, requests,
                 server_logs, log_lock>>

\* save_all_metadata_internal step by step: open(METADATA_FILE, "w")
\* truncates the file in place.
OpenForWrite(f) == [state |-> "truncated", data |-> EmptyDict]

UpdSaveOpen(t) ==
  /\ pc[t] = "upd_save"
  /\ metafile' = OpenForWrite(metafile)
  /\ Goto(t, "upd_dump")
  /\ UNCHANGED <<loc, fs, root, cache, metadata_lock, cache_lock, now, ticks,
                 requests, server_logs, log_lock, gh>>

\* json.dump has written the whole mapping and the file is closed; then
\* library_cache.clear().
UpdSaveDump(t) ==
  /\ pc[t] = "upd_dump"
  /\ metafile' = save_all_metadata_internal(loc[t].all_meta)
  /\ gh' = [gh EXCEPT !.metaCommits = @ + 1,
                      !.expect = UpsertRecord(@, loc[t].req["id"], loc[t].req)]
  /\ loc' = [loc EXCEPT ![t].myMeta = gh.metaCommits + 1, ![t].ret = "upd_ret"]
  /\ Goto(t, "clear1")
  /\ UNCHANGED <<fs, root, cache, metadata_lock, cache_lock, now, ticks, requests,
                 server_logs, log_lock>>

\* The process is terminated: threads, locks, cache and log are gone, the
\* files stay as they are.  History: the complete mappings of the moment,
\* the one last saved and the one of a save under way.
Crash ==
  /\ ~gh.crashed
  /\ pc' = [t \in Threads |-> "idle"]
  /\ loc' = [t \in Threads |-> InitLoc]
  /\ metadata_lock' = 0
  /\ cache_lock' = 0
  /\ log_lock' = 0
  /\ cache' = [data |-> <<>>, last_updated |-> 0]
  /\ server_logs' = <<>>
  /\ gh' = [gh EXCEPT !.crashed = TRUE,
                      !.complete = {gh.expect} \cup
                                   {loc[t].all_meta : t \in {u \in Threads :
                                       pc[u] \in {"upd_save", "upd_dump"}}}]
  /\ UNCHANGED <<metafile, fs, root, now, ticks, requests>>

\* The end of the with block: the lock is released and the handler returns.
UpdRet(t) ==
  /\ pc[t] = "upd_ret"
  /\ metadata_lock = t
  /\ metadata_lock' = 0
  /\ loc' = [loc EXCEPT ![t].status = 200]
  /\ gh' = [gh EXCEPT !.doneMeta = Max(@, loc[t].myMeta)]
  /\ Goto(t, "done")
  /\ UNCHANGED <<metafile, fs, root, cache, cache_lock, now, ticks, requests,
                 server_logs, log_lock>>

(***************************************************************************)
(* POST /update_metadata_batch.                                            *)
(***************************************************************************)
StartUpdateMetadataBatch(t, updates) ==
  /\ Accept(t)
  /\ loc' = [loc EXCEPT ![t] =
               [InitLoc EXCEPT !.op = "update_metadata_batch", !.updates = updates]]
  /\ Goto(t, "batch_lock")
  /\ UNCHANGED <<metafile, fs, root, cache, metadata_lock, cache_lock, now, ticks,
                 server_logs, log_lock, gh>>

BatchLock(t) ==
  /\ pc[t] = "batch_lock"
  /\ metadata_lock = 0
  /\ metadata_lock' = t
  /\ LET r == BatchLoop(loc[t].updates, load_all_metadata_internal(metafile), 0)
     IN  loc' = [loc EXCEPT ![t].all_meta = r.all_meta, ![t].count = r.updated_count]
  /\ Goto(t, "upd_save")
  /\ UNCHANGED <<metafile, fs, root, cache, cache_lock, now, ticks, requests,
                 server_logs, log_lock, gh>>

(***************************************************************************)
(* POST /delete_manga.                                                     *)
(***************************************************************************)
\* sub in s, for a two-character or one-character sub.
Contains(s, sub) ==
  \E i \in 1..(Len(s) - Len(sub) + 1) : SubSeq(s, i, i + Len(sub) - 1) = sub

InvalidName(manga_name) ==
  \/ Contains(manga_name, <<".", ".">>)
  \/ Contains(manga_name, <<"/">>)
  \/ Contains(manga_name, <<"\\">>)

\* target_path = os.path.join(DOWNLOAD_DIR, manga_name) is DOWNLOAD_DIR itself
\* for the names "" ("./downloads/") and "." ("./downloads/.").
IsRootName(manga_name) == manga_name \in {<<>>, <<".">>}

\* os.path.exists(target_path) and os.path.isdir(target_path)
TargetIsDir(folders, root_exists, manga_name) ==
  IF IsRootName(manga_name) THEN root_exists
  ELSE root_exists /\ manga_name \in DOMAIN folders

\* shutil.rmtree(target_path): the tree below target_path goes, content
\* first; for DOWNLOAD_DIR itself that is every content folder.
RemoveTree(folders, name) ==
  IF IsRootName(name) THEN EmptyDict
  ELSE [n \in (DOMAIN folders) \ {name} |-> folders[n]]

\* The last step of rmtree, os.rmdir(target_path): rmdir of a path that ends
\* in "." fails with EINVAL where the system follows POSIX, and succeeds
\* where the system normalizes the path first.
RmdirOutcomes(manga_name) ==
  IF manga_name = <<".">> THEN {TRUE, FALSE} ELSE {TRUE}

StartDelete(t, manga_name) ==
  /\ Accept(t)
  /\ LET st == IF InvalidName(manga_name) THEN 400
               ELSE IF TargetIsDir(fs, root, manga_name) THEN 0 ELSE 404
     IN  /\ loc' = [loc EXCEPT ![t] =
                      [InitLoc EXCEPT !.op = "delete_manga",
                                      !.manga_name = manga_name, !.status = st]]
         /\ Goto(t, IF st = 0 THEN "del_rmtree" ELSE "done")
  /\ UNCHANGED <<metafile, fs, root, cache, metadata_lock, cache_lock, now, ticks,
                 server_logs, log_lock, gh>>

\* The return without the clear() before it.
ReturnAfterRmtree == "del_ret"
\* What follows shutil.rmtree: library_cache.clear(), then the return.
AfterRmtree == "clear1"

\* rmtree raises when the folder has gone meanwhile: 500, and no clear().
DelRmtree(t, rmdir_ok) ==
  /\ pc[t] = "del_rmtree"
  /\ rmdir_ok \in RmdirOutcomes(loc[t].manga_name)
  /\ IF ~TargetIsDir(fs, root, loc[t].manga_name)
     THEN /\ loc' = [loc EXCEPT ![t].status = 500]
          /\ Goto(t, "done")
          /\ UNCHANGED <<fs, root, gh>>
     ELSE /\ fs' = RemoveTree(fs, loc[t].manga_name)
          /\ root' = (root /\ ~(IsRootName(loc[t].manga_name) /\ rmdir_ok))
          /\ gh' = [gh EXCEPT !.fsCommits = @ + 1]
          /\ IF rmdir_ok
             THEN /\ loc' = [loc EXCEPT ![t].myFs = gh.fsCommits + 1,
                                       ![t].ret = "del_ret",
                                       ![t].tag.clearsSeen = gh.clears]
                  /\ Goto(t, AfterRmtree)
             ELSE /\ loc' = [loc EXCEPT ![t].myFs = gh.fsCommits + 1,
                                       ![t].status = 500]
                  /\ Goto(t, "done")
  /\ UNCHANGED <<metafile, cache, metadata_lock, cache_lock, now, ticks,
                 requests, server_logs, log_lock>>

DelRet(t) ==
  /\ pc[t] = "del_ret"
  /\ loc' = [loc EXCEPT ![t].status = 200]
  /\ gh' = [gh EXCEPT !.doneFs = Max(@, loc[t].myFs)]
  /\ Goto(t, "done")
  /\ UNCHANGED <<metafile, fs, root, cache, metadata_lock, cache_lock, now, ticks,
                 requests, server_logs, log_lock>>

(***************************************************************************)
(* POST /sync_manga_names.                                                 *)
(***************************************************************************)
\* The loop over the folders: every folder with a chapter subfolder gets
\* the name of its first chapter as title, in the copy loaded before.
RECURSIVE SyncLoop(_, _, _, _)
SyncLoop(names, folders, all_meta, count) ==
  IF names = <<>> THEN [all_meta |-> all_meta, count |-> count]
  ELSE LET f == folders[Head(names)]
           target_id == IF f.sidecar.parsable /\ f.sidecar.id # <<>>
                        THEN f.sidecar.id ELSE Head(names)
           sub_dirs == SortNatural(ChapterDirs(f))
       IN  IF sub_dirs = <<>>
           THEN SyncLoop(Tail(names), folders, all_meta, count)
           ELSE SyncLoop(Tail(names), folders,
                         DictPut(all_meta, target_id,
                                 DictPut(DictGet(all_meta, target_id, EmptyDict),
                                         "title", sub_dirs[1])),
                         count + 1)

\* for mid, mdata in all_meta.items(): current_meta[mid].update(mdata)
SyncMerge(current_meta, all_meta) ==
  [mid \in (DOMAIN current_meta) \cup (DOMAIN all_meta) |->
     IF mid \in DOMAIN all_meta
     THEN DictUpdate(DictGet(current_meta, mid, EmptyDict), all_meta[mid])
     ELSE current_meta[mid]]

StartSync(t) ==
  /\ Accept(t)
  /\ loc' = [loc EXCEPT ![t] = [InitLoc EXCEPT !.op = "sync_manga_names"]]
  /\ Goto(t, "sync_load")
  /\ UNCHANGED <<metafile, fs, root, cache, metadata_lock, cache_lock, now, ticks,
                 server_logs, log_lock, gh>>

\* with metadata_lock: all_meta = load_all_metadata_internal()
SyncLoad(t) ==
  /\ pc[t] = "sync_load"
  /\ metadata_lock = 0
  /\ loc' = [loc EXCEPT ![t].all_meta = load_all_metadata_internal(metafile)]
  /\ Goto(t, "sync_scan")
  /\ UNCHANGED <<metafile, fs, root, cache, metadata_lock, cache_lock, now, ticks,
                 requests, server_logs, log_lock, gh>>

\* if not os.path.exists(DOWNLOAD_DIR): return {"count": 0, ...}; else the
\* walk over DOWNLOAD_DIR; if count > 0 the merge follows.
SyncScan(t) ==
  /\ pc[t] = "sync_scan"
  /\ LET r == SyncLoop(SortNatural(DOMAIN fs), fs, loc[t].all_meta, 0)
     IN  IF root
         THEN /\ loc' = [loc EXCEPT ![t].all_meta = r.all_meta,
                                    ![t].count = r.count,
                                    ![t].status = IF r.count > 0 THEN 0 ELSE 200,
                                    ![t].own = SyncLoop(SortNatural(DOMAIN fs), fs,
                                                        EmptyDict, 0).all_meta]
              /\ Goto(t, IF r.count > 0 THEN "sync_lock" ELSE "done")
         ELSE /\ loc' = [loc EXCEPT ![t].count = 0, ![t].status = 200]
              /\ Goto(t, "done")
  /\ UNCHANGED <<metafile, fs, root, cache, metadata_lock, cache_lock, now, ticks,
                 requests, server_logs, log_lock, gh>>

\* with metadata_lock: current_meta = load...(); merge
SyncLock(t) ==
  /\ pc[t] = "sync_lock"
  /\ metadata_lock = 0
  /\ metadata_lock' = t
  /\ loc' = [loc EXCEPT ![t].all_meta =
               SyncMerge(load_all_metadata_internal(metafile), loc[t].all_meta)]
  /\ Goto(t, "sync_save")
  /\ UNCHANGED <<metafile, fs, root, cache, cache_lock, now, ticks, requests,
                 server_logs, log_lock, gh>>

\* save_all_metadata_internal(current_meta); the lock is released, then
\* library_cache.clear() is called.
SyncSave(t) ==
  /\ pc[t] = "sync_save"
  /\ metadata_lock = t
  /\ metadata_lock' = 0
  /\ metafile' = save_all_metadata_internal(loc[t].all_meta)
  /\ gh' = [gh EXCEPT !.metaCommits = @ + 1,
                      !.expect = SyncMerge(@, loc[t].own)]
  /\ loc' = [loc EXCEPT ![t].myMeta = gh.metaCommits + 1, ![t].ret = "sync_ret"]
  /\ Goto(t, "clear1")
  /\ UNCHANGED <<fs, root, cache, cache_lock, now, ticks, requests, server_logs,
                 log_lock>>

SyncRet(t) ==
  /\ pc[t] = "sync_ret"
  /\ loc' = [loc EXCEPT ![t].status = 200]
  /\ gh' = [gh EXCEPT !.doneMeta = Max(@, loc[t].myMeta)]
  /\ Goto(t, "done")
  /\ UNCHANGED <<metafile, fs, root, cache, metadata_lock, cache_lock, now, ticks,
                 requests, server_logs, log_lock>>

(***************************************************************************)
(* The log buffer.                                                         *)
(***************************************************************************)
\* The insert without the pop.
LogInsertOnly(logs, entry) == <<entry>> \o logs
\* with log_lock: server_logs.insert(0, entry); pop() when over 100.
LogAppend(logs, entry) ==
  LET l == <<entry>> \o logs
  IN  IF Len(l) > LogCap THEN SubSeq(l, 1, Len(l) - 1) ELSE l

Line(kind, item) == [kind |-> kind, item |-> item]

\* log(msg) up to print(entry): the line is formatted, the lock not yet
\* taken.  Every call has its own message.
LogCall(t) ==
  /\ pc[t] = "idle"
  /\ gh.logCalls < MaxLogCalls
  /\ gh' = [gh EXCEPT !.logCalls = @ + 1]
  /\ loc' = [loc EXCEPT ![t] = [InitLoc EXCEPT !.op = "log",
                                  !.entry = Line("msg", gh.logCalls + 1)]]
  /\ Goto(t, "log_lock")
  /\ UNCHANGED <<metafile, fs, root, cache, metadata_lock, cache_lock, now, ticks,
                 requests, server_logs, log_lock>>

\* with log_lock: the lock is taken when it is free.
LogAcquire(t) ==
  /\ pc[t] = "log_lock"
  /\ log_lock = 0
  /\ log_lock' = t
  /\ Goto(t, "log_write")
  /\ UNCHANGED <<loc, metafile, fs, root, cache, metadata_lock, cache_lock, now,
                 ticks, requests, server_logs, gh>>

\* The body of the with log_lock block of log(), and its end.
LogWrite(t) ==
  /\ pc[t] = "log_write"
  /\ log_lock = t
  /\ log_lock' = 0
  /\ server_logs' = LogAppend(server_logs, loc[t].entry)
  /\ gh' = [gh EXCEPT !.appended = Append(@, loc[t].entry)]
  /\ loc' = [loc EXCEPT ![t] = InitLoc]
  /\ Goto(t, "idle")
  /\ UNCHANGED <<metafile, fs, root, cache, metadata_lock, cache_lock, now, ticks,
                 requests>>

(***************************************************************************)
(* POST /download_batch and the worker run_download_task.                  *)
(***************************************************************************)
\* str.strip()
RECURSIVE StripLeft(_)
StripLeft(s) ==
  IF s # <<>> /\ Head(s) \in Whitespace THEN StripLeft(Tail(s)) ELSE s
RECURSIVE StripRight(_)
StripRight(s) ==
  IF s # <<>> /\ s[Len(s)] \in Whitespace
  THEN StripRight(SubSeq(s, 1, Len(s) - 1)) ELSE s
Strip(s) == StripRight(StripLeft(s))

\* item_id.lower().startswith('p')
IsPhoto(item_id) == item_id # <<>> /\ Lower(Head(item_id)) = "p"

\* An item's failure ends the for loop.
AbortAfterItemFailure == "w_batch_log"
\* After an item's except handler the for loop takes the next item.
AfterItemFailure == "w_next"
\* A failed metadata fetch fails the item, without the download.
ItemFailsAfterMetadataFailure == "w_item_fail"
\* After the inner except handler the content download follows.
AfterMetadataFailure == "w_download"
\* The download is started and not waited for.
NoWaitAfterDownloadCall == "w_next"
\* download_album and download_photo return when the download has ended.
AfterDownloadCall == "w_in_download"
\* The last line without the clear() before it.
BatchLogAfterLoop == "w_batch_log"
\* What follows the for loop: library_cache.clear(), then the last line.
AfterLoop == "clear1"

\* What the download capability leaves in the item's folder when it succeeds.
DownloadedChapter == <<"c", "1">>
DownloadInto(folders, name) ==
  LET old == DictGet(folders, name, FolderOf(NoSidecar, {}))
  IN  DictPut(folders, name,
              [old EXCEPT !.subs = DictPut(@, DownloadedChapter, ChapterDir(OneImage))])

StartDownloadBatch(t, album_ids) ==
  /\ Accept(t)
  /\ IF album_ids = <<>>
     THEN /\ loc' = [loc EXCEPT ![t] =
                       [InitLoc EXCEPT !.op = "download_batch", !.status = 400]]
          /\ Goto(t, "done")
     ELSE /\ loc' = [loc EXCEPT ![t] =
                       [InitLoc EXCEPT !.op = "run_download_task",
                                       !.album_ids = album_ids]]
          /\ Goto(t, "w_next")
  /\ UNCHANGED <<metafile, fs, root, cache, metadata_lock, cache_lock, now, ticks,
                 server_logs, log_lock, gh>>

\* The head of the for loop: the next item; strip, skip an empty item,
\* log the start.
WNext(t) ==
  /\ pc[t] = "w_next"
  /\ LET l == loc[t]
     IN  IF l.idx = Len(l.album_ids)
         THEN /\ loc' = [loc EXCEPT ![t].ret = "w_batch_log",
                                    ![t].item_id = <<>>]
              /\ Goto(t, AfterLoop)
              /\ UNCHANGED <<server_logs, log_lock>>
         ELSE LET item == Strip(l.album_ids[l.idx + 1])
              IN  IF item = <<>>
                  THEN /\ loc' = [loc EXCEPT ![t].idx = @ + 1]
                       /\ UNCHANGED <<pc, server_logs, log_lock>>
                  ELSE /\ loc' = [loc EXCEPT ![t].idx = @ + 1,
                                    ![t].item_id = item,
                                    ![t].trace = Append(@, Event(l.idx + 1, "start"))]
                       /\ log_lock = 0 /\ UNCHANGED log_lock
                       /\ server_logs' = LogAppend(server_logs, Line("start", item))
                       /\ Goto(t, "w_mkdir")
  /\ UNCHANGED <<metafile, fs, root, cache, metadata_lock, cache_lock, now, ticks,
                 requests, gh>>

\* The outer except handler: the failure line, then the for loop goes on.
WItemFail(t) ==
  /\ pc[t] = "w_item_fail"
  /\ loc' = [loc EXCEPT ![t].trace = Append(@, Event(loc[t].idx, "outcome_fail"))]
  /\ log_lock = 0 /\ UNCHANGED log_lock
  /\ server_logs' = LogAppend(server_logs, Line("fail", loc[t].item_id))
  /\ Goto(t, AfterItemFailure)
  /\ UNCHANGED <<metafile, fs, root, cache, metadata_lock, cache_lock, now, ticks,
                 requests, gh>>

\* An exception reaches the outer except handler.
ItemFailure(t, ev) ==
  /\ loc' = [loc EXCEPT ![t].trace = Append(@, Event(loc[t].idx, ev))]
  /\ Goto(t, "w_item_fail")
  /\ UNCHANGED <<server_logs, log_lock>>

\* if not os.path.exists(manga_base_dir): os.makedirs(manga_base_dir)
WMkdir(t, ok) ==
  /\ pc[t] = "w_mkdir"
  /\ LET name == loc[t].item_id
     IN  IF name \in DOMAIN fs
         THEN /\ ok
              /\ loc' = [loc EXCEPT ![t].trace = Append(@, Event(loc[t].idx, "mkdir"))]
              /\ Goto(t, "w_option")
              /\ UNCHANGED <<fs, root, gh, server_logs, log_lock>>
         ELSE IF ok
         THEN /\ fs' = DictPut(fs, name, FolderOf(NoSidecar, {}))
              /\ root' = TRUE
              /\ gh' = [gh EXCEPT !.fsCommits = @ + 1]
              /\ loc' = [loc EXCEPT ![t].myFs = gh.fsCommits + 1,
                                    ![t].trace = Append(@, Event(loc[t].idx, "mkdir"))]
              /\ Goto(t, "w_option")
              /\ UNCHANGED <<server_logs, log_lock>>
         ELSE /\ ItemFailure(t, "mkdir_fail")
              /\ UNCHANGED <<fs, root, gh>>
  /\ UNCHANGED <<metafile, cache, metadata_lock, cache_lock, now, ticks, requests>>

\* get_jm_option: the option, the fallback option after a logged warning,
\* or an exception out of the fallback.  Then the branch on the "p" prefix.
WOption(t, outcome) ==
  /\ pc[t] = "w_option"
  /\ IF outcome = "raise"
     THEN ItemFailure(t, "option_fail")
     ELSE /\ log_lock = 0 /\ UNCHANGED log_lock
          /\ server_logs' =
               LET l1 == IF outcome = "fallback"
                         THEN LogAppend(server_logs, Line("option_warning", <<>>))
                         ELSE server_logs
               IN  IF IsPhoto(loc[t].item_id) THEN l1
                   ELSE LogAppend(l1, Line("fetching", loc[t].item_id))
          /\ loc' = loc
          /\ Goto(t, IF IsPhoto(loc[t].item_id) THEN "w_download" ELSE "w_client")
  /\ UNCHANGED <<metafile, fs, root, cache, metadata_lock, cache_lock, now, ticks,
                 requests, gh>>

\* client = option.new_jm_client(); client.get_album_detail(item_id) is called.
WFetchCall(t, ok) ==
  /\ pc[t] = "w_client"
  /\ IF ok
     THEN /\ loc' = [loc EXCEPT ![t].trace = Append(@, Event(loc[t].idx, "fetch_call"))]
          /\ Goto(t, "w_in_fetch")
          /\ UNCHANGED <<server_logs, log_lock>>
     ELSE ItemFailure(t, "client_fail")
  /\ UNCHANGED <<metafile, fs, root, cache, metadata_lock, cache_lock, now, ticks,
                 requests, gh>>

\* The inner except handler: the warning line.
MetadataFailure(t, ev) ==
  /\ loc' = [loc EXCEPT ![t].trace = Append(@, Event(loc[t].idx, ev))]
  /\ log_lock = 0 /\ UNCHANGED log_lock
  /\ server_logs' = LogAppend(server_logs, Line("metadata_warning", loc[t].item_id))
  /\ Goto(t, AfterMetadataFailure)

\* get_album_detail returns the album or raises.
WFetchReturn(t, ok) ==
  /\ pc[t] = "w_in_fetch"
  /\ IF ok
     THEN /\ loc' = [loc EXCEPT ![t].trace = Append(@, Event(loc[t].idx, "fetch_ok"))]
          /\ Goto(t, "w_sidecar")
          /\ UNCHANGED <<server_logs, log_lock>>
     ELSE MetadataFailure(t, "fetch_fail")
  /\ UNCHANGED <<metafile, fs, root, cache, metadata_lock, cache_lock, now, ticks,
                 requests, gh>>

\* xiangxi.txt is written into the item's folder (open raises when the
\* folder has been deleted meanwhile, and may raise anyway).
WSidecar(t, ok) ==
  /\ pc[t] = "w_sidecar"
  /\ LET name == loc[t].item_id
     IN  IF ok /\ name \in DOMAIN fs
         THEN /\ fs' = [fs EXCEPT ![name].sidecar =
                          SidecarOf(name, AlbumTitle)]
              /\ UNCHANGED root
              /\ gh' = [gh EXCEPT !.fsCommits = @ + 1]
              /\ loc' = [loc EXCEPT ![t].myFs = gh.fsCommits + 1,
                                    ![t].trace = Append(@, Event(loc[t].idx, "sidecar"))]
              /\ Goto(t, "w_meta_lock")
              /\ UNCHANGED <<server_logs, log_lock>>
         ELSE /\ MetadataFailure(t, "sidecar_fail")
              /\ UNCHANGED <<fs, root, gh>>
  /\ UNCHANGED <<metafile, cache, metadata_lock, cache_lock, now, ticks, requests>>

\* with metadata_lock: load; all_meta[item_id]['title'] = album.title
WMetaLock(t) ==
  /\ pc[t] = "w_meta_lock"
  /\ metadata_lock = 0
  /\ metadata_lock' = t
  /\ loc' = [loc EXCEPT ![t].all_meta =
               LET m == load_all_metadata_internal(metafile)
               IN  DictPut(m, loc[t].item_id,
                           DictPut(DictGet(m, loc[t].item_id, EmptyDict),
                                   "title", AlbumTitle))]
  /\ Goto(t, "w_meta_save")
  /\ UNCHANGED <<metafile, fs, root, cache, cache_lock, now, ticks, requests,
                 server_logs, log_lock, gh>>

\* save_all_metadata_internal(all_meta), then library_cache.clear().
WMetaSave(t) ==
  /\ pc[t] = "w_meta_save"
  /\ metafile' = save_all_metadata_internal(loc[t].all_meta)
  /\ gh' = [gh EXCEPT !.metaCommits = @ + 1,
                      !.expect = DictPut(@, loc[t].item_id,
                                   DictPut(DictGet(@, loc[t].item_id, EmptyDict),
                                           "title", AlbumTitle))]
  /\ loc' = [loc EXCEPT ![t].myMeta = gh.metaCommits + 1, ![t].ret = "w_meta_ret",
                        ![t].trace = Append(@, Event(loc[t].idx, "upsert"))]
  /\ Goto(t, "clear1")
  /\ UNCHANGED <<fs, root, cache, metadata_lock, cache_lock, now, ticks, requests,
                 server_logs, log_lock>>

\* The with block left with the lock still held.
LockKept(t) == t
\* The end of a with block releases the lock: nobody holds it.
LockReleased(t) == 0

\* The end of the with block, and the line that the metadata is saved.
WMetaRet(t) ==
  /\ pc[t] = "w_meta_ret"
  /\ metadata_lock = t
  /\ metadata_lock' = LockReleased(t)
  /\ log_lock = 0 /\ UNCHANGED log_lock
  /\ server_logs' = LogAppend(server_logs, Line("metadata_saved", loc[t].item_id))
  /\ gh' = [gh EXCEPT !.doneMeta = Max(@, loc[t].myMeta),
                      !.doneFs = Max(@, loc[t].myFs)]
  /\ Goto(t, "w_download")
  /\ UNCHANGED <<loc, metafile, fs, root, cache, cache_lock, now, ticks, requests>>

\* jmcomic.download_album(item_id, option) or download_photo(item_id[1:], option)
WDownloadCall(t) ==
  /\ pc[t] = "w_download"
  /\ loc' = [loc EXCEPT ![t].trace = Append(@, Event(loc[t].idx, "download_call"))]
  /\ Goto(t, AfterDownloadCall)
  /\ UNCHANGED <<metafile, fs, root, cache, metadata_lock, cache_lock, now, ticks,
                 requests, server_logs, log_lock, gh>>

\* The download returns or raises; the outcome line; the next item.
WDownloadReturn(t, ok) ==
  /\ pc[t] = "w_in_download"
  /\ IF ok
     THEN /\ fs' = DownloadInto(fs, loc[t].item_id)
          /\ root' = TRUE
          /\ gh' = [gh EXCEPT !.fsCommits = @ + 1]
          /\ loc' = [loc EXCEPT ![t].myFs = gh.fsCommits + 1,
                                ![t].trace = Append(@, Event(loc[t].idx, "outcome_ok"))]
          /\ log_lock = 0 /\ UNCHANGED log_lock
          /\ server_logs' = LogAppend(server_logs, Line("ok", loc[t].item_id))
          /\ Goto(t, "w_next")
     ELSE /\ ItemFailure(t, "download_fail")
          /\ UNCHANGED <<fs, root, gh>>
  /\ UNCHANGED <<metafile, cache, metadata_lock, cache_lock, now, ticks, requests>>

\* log("[BATCH_DONE] ..."), and the worker ends.
WBatchLog(t) ==
  /\ pc[t] = "w_batch_log"
  /\ log_lock = 0 /\ UNCHANGED log_lock
  /\ server_logs' = LogAppend(server_logs, Line("batch_done", <<>>))
  /\ loc' = [loc EXCEPT ![t].trace =
               Append(@, Event(Len(loc[t].album_ids) + 1, "batch_done"))]
  /\ gh' = [gh EXCEPT !.doneFs = Max(@, loc[t].myFs)]
  /\ Goto(t, "done")
  /\ UNCHANGED <<metafile, fs, root, cache, metadata_lock, cache_lock, now, ticks,
                 requests>>

(***************************************************************************)
(* GET /search: search_manga(q).                                           *)
(***************************************************************************)
StartSearch(t) ==
  /\ Accept(t)
  /\ loc' = [loc EXCEPT ![t] = [InitLoc EXCEPT !.op = "search_manga"]]
  /\ Goto(t, "s_option")
  /\ UNCHANGED <<metafile, fs, root, cache, metadata_lock, cache_lock, now, ticks,
                 server_logs, log_lock, gh>>

\* The except handler of search_manga: the error line and an empty result.
SearchError(t) ==
  /\ log_lock = 0 /\ UNCHANGED log_lock
  /\ server_logs' = LogAppend(server_logs, Line("search_error", <<>>))
  /\ loc' = [loc EXCEPT ![t].status = 200, ![t].count = 0]
  /\ Goto(t, "done")

\* get_jm_option(): the option, the fallback option after a logged
\* warning, or an exception out of the fallback.
SearchOption(t, outcome) ==
  /\ pc[t] = "s_option"
  /\ IF outcome = "raise"
     THEN SearchError(t)
     ELSE /\ log_lock = 0 /\ UNCHANGED log_lock
          /\ server_logs' = IF outcome = "fallback"
                            THEN LogAppend(server_logs, Line("option_warning", <<>>))
                            ELSE server_logs
          /\ loc' = loc
          /\ Goto(t, "s_client")
  /\ UNCHANGED <<metafile, fs, root, cache, metadata_lock, cache_lock, now, ticks,
                 requests, gh>>

\* client = option.new_jm_client(); client.search_site(...) is called.
SearchCall(t, ok) ==
  /\ pc[t] = "s_client"
  /\ IF ok
     THEN /\ Goto(t, "s_in_search")
          /\ UNCHANGED <<loc, server_logs, log_lock>>
     ELSE SearchError(t)
  /\ UNCHANGED <<metafile, fs, root, cache, metadata_lock, cache_lock, now, ticks,
                 requests, gh>>

\* The items the loop keeps: if count >= 30: break
SearchCap(found) == IF found > 30 THEN 30 ELSE found

\* search_site returns a page of found items, or raises.
SearchReturn(t, ok, found) ==
  /\ pc[t] = "s_in_search"
  /\ IF ok
     THEN /\ loc' = [loc EXCEPT ![t].status = 200, ![t].count = SearchCap(found)]
          /\ Goto(t, "done")
          /\ UNCHANGED <<server_logs, log_lock>>
     ELSE SearchError(t)
  /\ UNCHANGED <<metafile, fs, root, cache, metadata_lock, cache_lock, now, ticks,
                 requests, gh>>

(***************************************************************************)
(* Properties of the download worker.                                      *)
(***************************************************************************)
IsWorker(t) == loc[t].op = "run_download_task"
HasEv(tr, i, ev) == \E k \in 1..Len(tr) : tr[k] = Event(i, ev)
NonEmptyItems(ids) == {i \in 1..Len(ids) : Strip(ids[i]) # <<>>}
Outcomes == {"outcome_ok", "outcome_fail"}
HasOutcome(tr, i) == \E ev \in Outcomes : HasEv(tr, i, ev)

\* C3: whatever fails in an item (folder creation, option construction,
\* metadata fetch, sidecar write, content download), every non-empty item
\* of the batch is attempted: when a step of some item has happened, every
\* non-empty item before it has been started and has had its outcome
\* logged, and the worker ends only after the last item, with every
\* non-empty item started.
C3_EveryItemAttempted ==
  \A t \in Threads : IsWorker(t) =>
    LET tr == loc[t].trace
        ids == loc[t].album_ids
    IN  /\ \A k \in 1..Len(tr) : \A i \in NonEmptyItems(ids) :
             i < tr[k].i => HasEv(SubSeq(tr, 1, k), i, "start")
                            /\ HasOutcome(SubSeq(tr, 1, k), i)
        /\ pc[t] = "done" =>
             /\ \A i \in NonEmptyItems(ids) : HasEv(tr, i, "start")
             /\ HasEv(tr, Len(ids) + 1, "batch_done")

\* A batch of two items has ended; the first failed, the second was attempted.
C3_Witness ==
  \E t \in Threads :
    /\ IsWorker(t) /\ pc[t] = "done"
    /\ Len(loc[t].album_ids) = 2
    /\ HasEv(loc[t].trace, 1, "outcome_fail")
    /\ HasEv(loc[t].trace, 2, "start")

\* C4: for a non-photo item whose metadata fetch has returned, the content
\* download is called before the worker leaves the item, whether the fetch
\* succeeded or failed; the sidecar write, the title upsert and the
\* per-item cache clear happen only after a successful fetch, and none of
\* them happens for an item whose fetch failed.
C4_DownloadAfterMetadata ==
  \A t \in Threads : IsWorker(t) =>
    LET tr == loc[t].trace
    IN  \A i \in 1..Len(loc[t].album_ids) :
          /\ (\E ev \in {"fetch_ok", "fetch_fail"} : HasEv(tr, i, ev))
             /\ (loc[t].idx > i \/ pc[t] \in {"w_next", "w_item_fail", "w_batch_log", "done"}
                 \/ HasEv(tr, Len(loc[t].album_ids) + 1, "clear"))
             => HasEv(tr, i, "download_call")
          /\ \A k \in 1..Len(tr) :
               tr[k].i = i /\ tr[k].ev \in {"sidecar", "upsert", "clear"}
               => HasEv(SubSeq(tr, 1, k), i, "fetch_ok")
          /\ HasEv(tr, i, "fetch_fail")
               => \A ev \in {"sidecar", "upsert", "clear"} : ~HasEv(tr, i, ev)

\* The first item's fetch failed and the second's succeeded: both downloads
\* were called, and only the second item has sidecar, upsert and clear.
C4_Witness ==
  \E t \in Threads :
    /\ IsWorker(t) /\ pc[t] = "done"
    /\ HasEv(loc[t].trace, 1, "fetch_fail")
    /\ HasEv(loc[t].trace, 1, "download_call")
    /\ ~HasEv(loc[t].trace, 1, "sidecar")
    /\ HasEv(loc[t].trace, 2, "fetch_ok")
    /\ HasEv(loc[t].trace, 2, "sidecar")
    /\ HasEv(loc[t].trace, 2, "upsert")
    /\ HasEv(loc[t].trace, 2, "clear")
    /\ HasEv(loc[t].trace, 2, "download_call")

\* C5: the items of a batch are processed one after another in list order:
\* the steps of the worker never go back to an earlier item, a step of
\* another item follows only an outcome line, and nothing of an item
\* happens after its outcome line.
C5_ItemsSequential ==
  \A t \in Threads : IsWorker(t) =>
    LET tr == loc[t].trace
    IN  \A k \in 1..(Len(tr) - 1) :
          /\ tr[k].i <= tr[k + 1].i
          /\ tr[k].i < tr[k + 1].i => tr[k].ev \in Outcomes
          /\ tr[k].ev \in Outcomes => tr[k].i < tr[k + 1].i

\* Both items of a batch went through fetch, sidecar, upsert and download.
C5_Witness ==
  \E t \in Threads :
    /\ IsWorker(t) /\ pc[t] = "done"
    /\ \A i \in {1, 2} :
         /\ HasEv(loc[t].trace, i, "sidecar")
         /\ HasEv(loc[t].trace, i, "upsert")
         /\ HasEv(loc[t].trace, i, "outcome_ok")

\* The places of the batch-complete step in the worker's history.
BatchDoneAt(t) ==
  {k \in 1..Len(loc[t].trace) :
     loc[t].trace[k] = Event(Len(loc[t].album_ids) + 1, "batch_done")}

\* The places of the lines of the given kinds in the log, newest first.
LogLines(kinds) == {j \in 1..Len(server_logs) : server_logs[j].kind \in kinds}

\* The batch-complete line is written at most once, as the worker's last
\* step, right after a clear() that follows the loop, and after the outcome
\* line of every non-empty item.
BatchDoneOnceAtEnd(t) ==
  LET tr == loc[t].trace
      ids == loc[t].album_ids
  IN  /\ Cardinality(BatchDoneAt(t)) <= 1
      /\ Cardinality(LogLines({"batch_done"})) = Cardinality(BatchDoneAt(t))
      /\ \A k \in BatchDoneAt(t) :
           /\ k = Len(tr)
           /\ k > 1
           /\ tr[k - 1] = Event(Len(ids) + 1, "clear")
           /\ \A i \in NonEmptyItems(ids) : HasOutcome(SubSeq(tr, 1, k - 2), i)
           /\ Cardinality(LogLines({"ok", "fail"})) = Cardinality(NonEmptyItems(ids))
           /\ \A j \in LogLines({"ok", "fail"}) : \A d \in LogLines({"batch_done"}) : d < j

\* C6: every accepted batch, under fair scheduling and when every
\* capability call returns, eventually writes the batch-complete line,
\* exactly once, after the outcome line of every item and after a final
\* clear() that follows the last item.
C6_BatchCompletes ==
  /\ [](\A t \in Threads : IsWorker(t) => BatchDoneOnceAtEnd(t))
  /\ \A t \in Threads :
       IsWorker(t) ~> (IsWorker(t) /\ pc[t] = "done" /\ BatchDoneAt(t) # {})

\* A batch of two items, the first downloaded and the second failed, has
\* written its batch-complete line.
C6_Witness ==
  \E t \in Threads :
    /\ IsWorker(t) /\ pc[t] = "done"
    /\ BatchDoneAt(t) # {}
    /\ HasEv(loc[t].trace, 1, "outcome_ok")
    /\ HasEv(loc[t].trace, 2, "outcome_fail")
    /\ server_logs # <<>> /\ server_logs[1].kind = "batch_done"

(***************************************************************************)
(* LibraryCache.get().                                                     *)
(***************************************************************************)
\* The listing t has its get() behind it.
PastGet(t) ==
  /\ loc[t].op = "scan_library"
  /\ pc[t] \in {"scan_load", "scan_dir", "set1", "set2", "done"}

\* The get() of t ran after a completed set(v), less than cache_duration
\* after it, with no set() or clear() under way or begun until it returned.
AfterSetWithinTTL(t) ==
  /\ PastGet(t)
  /\ loc[t].seen.quiet
  /\ loc[t].seen.ended = loc[t].seen.begun
  /\ loc[t].seen.stamp # 0
  /\ loc[t].getNow - loc[t].seen.stamp < cache_duration

\* get() returned the list v rather than None.
GetReturnedValue(t, v) == ~loc[t].gotNone /\ loc[t].cached = v

\* C7, as stated: after set(v) with no later clear() or set(), every get()
\* made less than cache_duration after the set returns v, for every v the
\* listing passes to set(), the empty list included.
C7_GetReturnsAnySetValue ==
  \A t \in Threads :
    AfterSetWithinTTL(t) => GetReturnedValue(t, loc[t].seen.data)

\* C7, amended: after set(v) of a non-empty list v with no later clear() or
\* set(), every get() made less than cache_duration after the set returns
\* v; after set([]) get() returns None.
C7_GetReturnsNonEmptySetValue ==
  \A t \in Threads :
    AfterSetWithinTTL(t) =>
      IF loc[t].seen.data # <<>>
      THEN GetReturnedValue(t, loc[t].seen.data)
      ELSE loc[t].gotNone

\* A get() made a positive time after the set() of a non-empty list
\* returned that list.
C7_Witness ==
  \E t \in Threads :
    /\ AfterSetWithinTTL(t)
    /\ loc[t].seen.data # <<>>
    /\ loc[t].getNow > loc[t].seen.stamp
    /\ GetReturnedValue(t, loc[t].seen.data)

\* The get() of listing t has just returned a non-empty list; loc[t].tag is
\* the history of that list until the listing loads the metadata.
GetReturnedList(t) ==
  /\ loc[t].op = "scan_library"
  /\ ~loc[t].gotNone
  /\ loc[t].cached # <<>>
  /\ \/ pc[t] = "scan_load"
     \/ pc[t] = "done" /\ ServesCached(loc[t].cached, loc[t].refresh)

\* C8: get() returns a non-empty list only when the cache is fresh: the
\* set() of the list is less than cache_duration before the get()'s reading
\* of the clock, and no clear() completed between that set() and the start
\* of the get(), in every interleaving with set() and clear().
C8_GetOnlyWhenFresh ==
  \A t \in Threads :
    GetReturnedList(t) =>
      /\ loc[t].getNow - loc[t].tag.setAt < cache_duration
      /\ loc[t].tag.clearsSeen >= loc[t].getClears

\* A get() that started after a completed clear() and some time after a
\* set() returned a list.
C8_Witness ==
  \E t \in Threads :
    /\ GetReturnedList(t)
    /\ loc[t].getClears >= 1
    /\ loc[t].getNow > loc[t].tag.setAt

(***************************************************************************)
(* Cache invalidation.                                                     *)
(***************************************************************************)
\* The listing t has returned a list.
ListingReturned(t) ==
  loc[t].op = "scan_library" /\ pc[t] = "done" /\ loc[t].status = 200

\* The list that t returned was computed from the metadata file and the
\* folders as they were at or after the last commit of every mutation that
\* had finished when t started.
ComputedAfterFinishedMutations(t) ==
  /\ loc[t].tag.metaSeen >= loc[t].need.metaSeen
  /\ loc[t].tag.fsSeen >= loc[t].need.fsSeen

\* C1: once a mutation has finished, every listing that starts afterwards
\* returns a list computed after it, or one equal to the listing of the
\* present state, and never a list computed from the state before it; also
\* when another listing was between its scan and its set() meanwhile.
C1_ListingReflectsFinishedMutations ==
  \A t \in Threads :
    ListingReturned(t) =>
      \/ ComputedAfterFinishedMutations(t)
      \/ loc[t].result = ScanAll(fs, load_all_metadata_internal(metafile))

(***************************************************************************)
(* The metadata writers.                                                   *)
(***************************************************************************)
\* C2: no update is lost: in every interleaving of the metadata writers,
\* every key of every record in the file holds the value of the last writer
\* that set that key (gh.expect, which each commit extends by the keys the
\* writer itself sets), and no writer puts back a value it read earlier.
C2_NoLostUpdate ==
  load_all_metadata_internal(metafile) = gh.expect

\* The ids of the items of a batch that have one.
DistinctIds(updates) ==
  {updates[i]["id"] : i \in {j \in 1..Len(updates) : HasId(updates[j])}}

\* update_metadata_batch of t has computed its count.
BatchCounted(t) ==
  /\ loc[t].op = "update_metadata_batch"
  /\ pc[t] \in {"upd_save", "clear1", "clear2", "upd_ret", "done"}

\* C9: update_metadata_batch returns the number of records touched: the
\* number of distinct ids among the items that have an id.
C9_CountIsDistinctIds ==
  \A t \in Threads :
    BatchCounted(t) => loc[t].count = Cardinality(DistinctIds(loc[t].updates))

\* update_metadata of t has saved the store and still holds metadata_lock,
\* so that the file is what it wrote.
UpsertSaved(t) ==
  /\ loc[t].op = "update_metadata"
  /\ pc[t] \in {"clear1", "clear2", "upd_ret"}
  /\ metadata_lock = t

\* The store new is the store old with the keys of data other than "id" set
\* under manga_id, and nothing else changed.
UpsertedOnly(old, new, manga_id, data) ==
  LET keys == (DOMAIN data) \ {"id"}
      record == DictGet(old, manga_id, EmptyDict)
  IN  /\ DOMAIN new = (DOMAIN old) \cup {manga_id}
      /\ \A other \in (DOMAIN old) \ {manga_id} : new[other] = old[other]
      /\ DOMAIN new[manga_id] = (DOMAIN record) \cup keys
      /\ \A k \in keys : new[manga_id][k] = data[k]
      /\ \A k \in (DOMAIN record) \ keys : new[manga_id][k] = record[k]

\* C10: update_metadata(id, partial) changes the store only under id and
\* only in the keys of partial, each set to partial's value, creating the
\* record when absent; the same request applied to the saved store and
\* saved again gives the same store.
C10_UpsertLocalIdempotent ==
  \A t \in Threads :
    UpsertSaved(t) =>
      LET new == load_all_metadata_internal(metafile)
          again == UpsertRecord(new, loc[t].req["id"], loc[t].req)
      IN  /\ UpsertedOnly(loc[t].before, new, loc[t].req["id"], loc[t].req)
          /\ load_all_metadata_internal(save_all_metadata_internal(again)) = new

\* update_metadata has set a key of a record that has another key, in a
\* store that has another record.
C10_Witness ==
  \E t \in Threads :
    /\ UpsertSaved(t)
    /\ LET manga_id == loc[t].req["id"]
       IN  /\ manga_id \in DOMAIN loc[t].before
           /\ (DOMAIN loc[t].before[manga_id]) \ (DOMAIN loc[t].req) # {}
           /\ (DOMAIN loc[t].before) \ {manga_id} # {}
           /\ load_all_metadata_internal(metafile) # loc[t].before

(***************************************************************************)
(* delete_manga.                                                           *)
(***************************************************************************)
\* The step from this state to the next is a step of the delete_manga t.
DeleteStep(t) == loc'[t].op = "delete_manga" /\ pc'[t] # pc[t]

C12_SaveSurvivesTermination ==
  gh.crashed => load_all_metadata_internal(metafile) \in gh.complete

(***************************************************************************)
(* The scan of one content folder.                                         *)
(***************************************************************************)
Range(q) == {q[i] : i \in DOMAIN q}

\* x comes before every other member of S in natural order.
NaturalFirst(x, S) ==
  x \in S /\ \A y \in S \ {x} : KeyLess(natural_key(x), natural_key(y))

\* q lists exactly the members of S, each once, in natural order.
InNaturalOrder(q, S) ==
  /\ Range(q) = S
  /\ Len(q) = Cardinality(S)
  /\ \A i, j \in DOMAIN q : i < j => KeyLess(natural_key(q[i]), natural_key(q[j]))

\* The names of the files of a chapter folder with a recognized suffix.
RecognizedImages(folder, chapter) ==
  {f.name : f \in {g \in folder.subs[chapter].files : g.is_file /\ IsImageName(g.name)}}

\* url is the address of file img of chapter chapter of folder name under
\* the static mount.
PointsAt(url, name, chapter, img) ==
  /\ Len(url) > 1
  /\ url[1] = base_url
  /\ unquote(Tail(url)) = <<"/">> \o name \o <<"/">> \o chapter \o <<"/">> \o img

\* The lists of entries the listings hold: computed, returned, cached.
ListingLists ==
  {cache.data} \cup
  UNION { {loc[t].mangas, loc[t].result} :
          t \in {u \in Threads : loc[u].op = "scan_library"} }
ListingEntries == UNION {Range(q) : q \in ListingLists}

\* Entry e is what the claim says of a non-full scan of its folder.
LightEntryOf(e, folder) ==
  LET dirs == ChapterDirs(folder)
  IN  /\ \A first \in dirs :
           NaturalFirst(first, dirs) =>
             LET imgs == RecognizedImages(folder, first)
             IN  IF imgs = {} THEN e.coverUrl = <<>>
                 ELSE \E img \in imgs :
                        /\ NaturalFirst(img, imgs)
                        /\ PointsAt(e.coverUrl, e.sourceId, first, img)
      /\ \A k \in DOMAIN e.chapters : e.chapters[k].pages = <<>>
      /\ e.totalPages = 0

\* C13: a non-full scan returns an entry whose coverUrl points at the first
\* image, in natural order, of the first chapter folder, in natural order,
\* and is empty when that chapter has no recognized image; every chapter has
\* an empty page list and totalPages is 0.
C13_LightScanCover ==
  \A e \in ListingEntries : LightEntryOf(e, fs[e.sourceId])

\* A listing returned an entry of two chapters whose cover is 2.jpg of c2:
\* "c10" and "10.JPG" come first as plain strings, "c2" and "2.jpg" in
\* natural order.
C13_Witness ==
  \E t \in Threads :
    /\ loc[t].op = "scan_library" /\ pc[t] = "done" /\ loc[t].status = 200
    /\ \E e \in Range(loc[t].result) :
         /\ Len(e.chapters) = 2
         /\ e.coverUrl = FileUrl(e.sourceId, <<"c", "2">>, Image2)
         /\ RecognizedImages(fs[e.sourceId], <<"c", "1", "0">>) # {}

DetailReturned(t) ==
  loc[t].op = "get_manga_detail" /\ pc[t] = "done" /\ loc[t].status = 200

\* The number of recognized images in the chapters dirs of folder.
RECURSIVE ImageCount(_, _)
ImageCount(folder, dirs) ==
  IF dirs = {} THEN 0
  ELSE LET d == CHOOSE x \in dirs : TRUE
       IN  Cardinality(RecognizedImages(folder, d)) + ImageCount(folder, dirs \ {d})

\* Entry e is what the claim says of a full scan of its folder.
FullEntryOf(e, folder) ==
  LET dirs == ChapterDirs(folder)
  IN  /\ InNaturalOrder([k \in DOMAIN e.chapters |-> e.chapters[k].id], dirs)
      /\ \A k \in DOMAIN e.chapters :
           LET c == e.chapters[k]
           IN  /\ InNaturalOrder([i \in DOMAIN c.pages |-> c.pages[i].name],
                                 RecognizedImages(folder, c.id))
               /\ \A i \in DOMAIN c.pages :
                    PointsAt(c.pages[i].url, e.sourceId, c.id, c.pages[i].name)
      /\ e.totalPages = ImageCount(folder, dirs)
      /\ e.coverUrl = <<>>

\* C14: a full scan returns every chapter with a page list that holds
\* exactly the recognized image files of that chapter in natural order,
\* totalPages equal to the sum of the page counts (0 without images), and an
\* empty coverUrl.
C14_FullScanPages ==
  \A t \in Threads :
    DetailReturned(t) => FullEntryOf(loc[t].manga_data, fs[loc[t].id])

\* A detail returned two chapters, the first one with pages 2.jpg, 10.JPG
\* in this order and the second one with a page whose name is quoted.
C14_Witness ==
  \E t \in Threads :
    /\ DetailReturned(t)
    /\ Len(loc[t].manga_data.chapters) = 2
    /\ Len(loc[t].manga_data.chapters[1].pages) = 2
    /\ [i \in 1..2 |-> loc[t].manga_data.chapters[1].pages[i].name]
         = <<Image2, Image10>>
    /\ Len(loc[t].manga_data.chapters[2].pages) = 1
    /\ loc[t].manga_data.chapters[2].pages[1].name = ImageSpace
    /\ loc[t].manga_data.totalPages = 3

\* C15: no content entry with zero chapters is ever produced: the listings
\* hold, return and cache only entries with a chapter, a detail returns only
\* such an entry, and a scan of a folder without chapter subfolders (one the
\* worker has created and not yet populated included) yields no entry.
C15_NoEntryWithoutChapters ==
  /\ [](/\ \A e \in ListingEntries : e.chapters # <<>>
        /\ \A t \in Threads : DetailReturned(t) => loc[t].manga_data.chapters # <<>>)
  /\ [][\A t \in Threads :
         /\ pc[t] = "scan_dir" /\ pc'[t] # "scan_dir"
              => \A name \in DOMAIN fs :
                   ChapterDirs(fs[name]) = {}
                     => \A e \in Range(loc'[t].mangas) : e.sourceId # name
         /\ pc[t] = "detail_parse" /\ pc'[t] # "detail_parse"
              /\ loc[t].id \in DOMAIN fs /\ ChapterDirs(fs[loc[t].id]) = {}
              => loc'[t].status = 500]_vars

\* A listing that scanned while the folder the worker had made was still
\* empty has returned without an entry for it.
C15_Witness ==
  \E t, w \in Threads :
    /\ loc[t].op = "scan_library" /\ pc[t] = "done" /\ loc[t].status = 200
    /\ loc[t].gotNone
    /\ IsWorker(w) /\ pc[w] = "w_option"
    /\ loc[w].item_id \in DOMAIN fs
    /\ ChapterDirs(fs[loc[w].item_id]) = {}
    /\ loc[t].tag.fsSeen = gh.fsCommits
    /\ \A e \in Range(loc[t].result) : e.sourceId # loc[w].item_id

(***************************************************************************)
(* The worker's cache invalidation, item by item.                          *)
(***************************************************************************)
\* C18: the worker invalidates the cache as each item completes: between
\* the end of an item's content download (its outcome line) and the start
\* of the next item there is a library_cache.clear().
C18_ClearAfterEachItem ==
  \A t \in Threads : IsWorker(t) =>
    LET tr == loc[t].trace
    IN  \A k, j \in 1..Len(tr) :
          /\ k < j
          /\ tr[k].ev = "outcome_ok"
          /\ tr[j].ev = "start"
          => \E n \in (k + 1)..(j - 1) : tr[n].ev = "clear"

(***************************************************************************)
(* Locks and the calls into the external capabilities.                     *)
(***************************************************************************)
\* The thread is inside get_album_detail, download_album / download_photo
\* or search_site: the call has been made and has not returned.
InExternalCall(t) == pc[t] \in {"w_in_fetch", "w_in_download", "s_in_search"}

\* C19: no thread holds the metadata lock or the cache lock while it is
\* inside an external-capability call.  (The log lock is held only inside
\* the appending step, which makes no call.)
C19_NoLockInExternalCall ==
  \A t \in Threads :
    InExternalCall(t) => metadata_lock # t /\ cache_lock # t

\* The worker is inside the download after its locked upsert and clear,
\* while a search is inside search_site.
C19_Witness ==
  \E w, t \in Threads :
    /\ IsWorker(w) /\ pc[w] = "w_in_download"
    /\ HasEv(loc[w].trace, loc[w].idx, "upsert")
    /\ HasEv(loc[w].trace, loc[w].idx, "clear")
    /\ pc[t] = "s_in_search"

(***************************************************************************)
(* A listing scan that fails.                                              *)
(***************************************************************************)
ScanFailed(t) == loc[t].op = "scan_library" /\ loc[t].status = 500

\* C20: a listing whose scan fails answers with the scan failure and does
\* not call library_cache.set(): the entries it had collected are neither
\* returned nor stored, and every list the listings serve, and the cache
\* when it is not empty, is a complete scan (nothing changes the folders
\* and the metadata here).
C20_FailedScanStoresNothing ==
  /\ [](/\ \A t \in Threads :
             ScanFailed(t) => pc[t] = "done" /\ loc[t].result = <<>>
        /\ cache.data \in {<<>>, ScanAll(fs, load_all_metadata_internal(metafile))}
        /\ \A t \in Threads :
             loc[t].op = "scan_library" /\ loc[t].status = 200
               => loc[t].result = ScanAll(fs, load_all_metadata_internal(metafile)))
  /\ [][\A t \in Threads :
         pc[t] = "scan_dir" /\ loc'[t].status = 500
           => pc'[t] = "done" /\ cache' = cache /\ cache_lock' = cache_lock]_vars

\* A scan failed after it had collected one of the two entries, and
\* another listing, which scanned by itself, returned both.
C20_Witness ==
  \E t, u \in Threads :
    /\ ScanFailed(t) /\ pc[t] = "done" /\ Len(loc[t].mangas) = 1
    /\ loc[u].op = "scan_library" /\ pc[u] = "done" /\ loc[u].status = 200
    /\ Len(loc[u].result) = 2

(***************************************************************************)
(* The order in which the locks are taken.                                 *)
(***************************************************************************)
\* Where a thread is about to enter a with metadata_lock block, a
\* with self.lock block of the cache, the with log_lock block of log().
MetadataWaits ==
  {"scan_load", "detail_load", "upd_lock", "batch_lock", "sync_load",
   "sync_lock", "w_meta_lock"}
CacheWaits == {"clear1", "set1"}
LogWaits == {"log_lock"}
LockWaits == MetadataWaits \cup CacheWaits \cup LogWaits

\* No step leads from one of these positions to another: a thread that has
\* left them has taken the lock it waited for.

\* The step in which thread t takes the lock it has been waiting for.
Acquires(t, waits) == pc[t] \in waits /\ pc'[t] # pc[t]

\* The thread that holds the lock thread t is about to take, 0 when free.
HolderFor(t) ==
  IF pc[t] \in MetadataWaits THEN metadata_lock
  ELSE IF pc[t] \in CacheWaits THEN cache_lock
  ELSE log_lock

\* Thread t waits for a lock that is held.
Blocked(t) == pc[t] \in LockWaits /\ HolderFor(t) # 0

\* Whoever holds a lock another thread waits for is inside a handler and is
\* not itself waiting for a held lock: it can go on and release.
NoDeadlock ==
  \A t \in Threads :
    Blocked(t) =>
      /\ HolderFor(t) # t
      /\ pc[HolderFor(t)] \notin {"idle", "done"}
      /\ ~Blocked(HolderFor(t))

\* The cache lock is taken while holding no lock or only the metadata lock;
\* the metadata lock is taken while holding neither of the others; while
\* the log lock is held no lock is taken.
LockOrder ==
  \A t \in Threads :
    /\ Acquires(t, CacheWaits) => cache_lock # t /\ log_lock # t
    /\ Acquires(t, MetadataWaits) =>
         metadata_lock # t /\ cache_lock # t /\ log_lock # t
    /\ Acquires(t, LogWaits) => log_lock # t
    /\ log_lock = t =>
         /\ metadata_lock' = t => metadata_lock = t
         /\ cache_lock' = t => cache_lock = t

\* C21: no interleaving of request handlers and download workers deadlocks:
\* the cache lock is only taken while holding no lock or only the metadata
\* lock, the metadata lock is never taken while holding the cache lock or
\* the log lock, no lock is taken while the log lock is held, and every
\* thread that waits for a lock eventually gets it.
C21_LocksOrderedAndGranted ==
  /\ []NoDeadlock
  /\ [][LockOrder]_vars
  /\ \A t \in Threads : (pc[t] \in LockWaits) ~> (pc[t] \notin LockWaits)

\* One thread holds the metadata lock and waits for the cache lock, which
\* the other thread holds.
C21_Witness ==
  \E t, u \in Threads :
    /\ t # u
    /\ metadata_lock = t /\ pc[t] = "clear1"
    /\ cache_lock = u

(***************************************************************************)
(* What delete_manga removes.                                              *)
(***************************************************************************)
\* The step of thread t in which shutil.rmtree(target_path) runs.
RmtreeStep(t) == pc[t] = "del_rmtree" /\ pc'[t] # "del_rmtree"

\* C22: for every manga_name that delete_manga accepts ("" and "." included),
\* the tree that rmtree removes is exactly one immediate child folder of the
\* download root: the root itself is never removed, and no content folder
\* other than the named one is removed.
C22_RemovesOneChildFolder ==
  [][\A t \in Threads : RmtreeStep(t) =>
       /\ root' = root
       /\ \A n \in DOMAIN fs :
            n # loc[t].manga_name => n \in DOMAIN fs' /\ fs'[n] = fs[n]
       /\ fs' # fs => (DOMAIN fs) \ (DOMAIN fs') = {loc[t].manga_name}
  ]_vars

\* A delete_manga with the name "" has returned 200: the download root is
\* gone with both content folders.
C22_RootRemoved ==
  \E t \in Threads :
    /\ loc[t].op = "delete_manga" /\ loc[t].manga_name = <<>>
    /\ pc[t] = "done" /\ loc[t].status = 200
    /\ ~root /\ fs = EmptyDict

\* A delete_manga with the name "." has ended with 500: the download root is
\* still there, and both content folders are gone.
C22_RootEmptied ==
  \E t \in Threads :
    /\ loc[t].op = "delete_manga" /\ loc[t].manga_name = <<".">>
    /\ pc[t] = "done" /\ loc[t].status = 500
    /\ root /\ fs = EmptyDict

(***************************************************************************)
(* The log buffer under concurrent appends.                                *)
(***************************************************************************)
\* logs holds the last lines of the appends so far, newest first, LogCap
\* of them at most.
HoldsNewest(logs, appended) ==
  LET n == Len(appended)
  IN  /\ Len(logs) = IF n < LogCap THEN n ELSE LogCap
      /\ \A i \in 1..Len(logs) : logs[i] = appended[n - i + 1]

\* C17: after any sequence of appends by concurrent threads the buffer
\* holds at most 100 lines: the min(n, 100) most recently appended ones,
\* newest first, none lost or twice.
C17_LogHoldsNewest ==
  /\ Len(server_logs) <= LogCap
  /\ HoldsNewest(server_logs, gh.appended)

\* More than 100 lines were appended, two of them in the other order than
\* their calls, and the buffer is full.
C17_Witness ==
  /\ Len(gh.appended) > LogCap
  /\ Len(server_logs) = LogCap
  /\ \E i \in 1..(Len(gh.appended) - 1) :
       /\ gh.appended[i].kind = "msg"
       /\ gh.appended[i].item > gh.appended[i + 1].item

\* q without the members that occur earlier in it.
RECURSIVE Dedup(_)
Dedup(q) ==
  IF q = <<>> THEN <<>>
  ELSE LET front == Dedup(SubSeq(q, 1, Len(q) - 1))
           last == q[Len(q)]
       IN  IF last \in Range(front) THEN front ELSE Append(front, last)

\* C16: for a folder with a parsable sidecar, the keywords of the entry are
\* the union of the sidecar's keywords and tags, without duplicates, in the
\* order of first appearance.
C16_KeywordsUnionTags ==
  /\ \A e \in ListingEntries :
       LET sc == fs[e.sourceId].sidecar
       IN  sc.parsable => e.keywords = Dedup(sc.keywords \o sc.tags)
  /\ \A t \in Threads :
       DetailReturned(t) /\ fs[loc[t].id].sidecar.parsable
         => loc[t].manga_data.keywords
              = Dedup(fs[loc[t].id].sidecar.keywords \o fs[loc[t].id].sidecar.tags)

(***************************************************************************)
(* Specifications.                                                         *)
(***************************************************************************)
\* The cache under concurrent listings, with and without refresh.
NextCache ==
  \/ Tick
  \/ \E t \in Threads :
       \/ \E r \in BOOLEAN : StartScan(t, r)
       \/ CacheGet1(t) \/ CacheGet2(t) \/ CacheGet3(t)
       \/ ScanLoad(t) \/ ScanDir(t)
       \/ CacheSet1(t) \/ CacheSet2(t)
       \/ CacheClear1(t) \/ CacheClear2(t)
       \/ Finish(t)

\* The listings start with a metadata file on disk, and an empty or a
\* non-empty library.
InitCache == Init /\ metafile.state = "ok"

SpecCache == InitCache /\ [][NextCache]_vars

\* The steps of the download worker.
WorkerStep(t) ==
  \/ WNext(t) \/ WItemFail(t)
  \/ \E ok \in BOOLEAN : WMkdir(t, ok)
  \/ \E o \in {"ok", "fallback", "raise"} : WOption(t, o)
  \/ \E ok \in BOOLEAN : WFetchCall(t, ok)
  \/ \E ok \in BOOLEAN : WFetchReturn(t, ok)
  \/ \E ok \in BOOLEAN : WSidecar(t, ok)
  \/ WMetaLock(t) \/ WMetaSave(t) \/ WMetaRet(t)
  \/ WDownloadCall(t)
  \/ \E ok \in BOOLEAN : WDownloadReturn(t, ok)
  \/ WBatchLog(t)
  \/ CacheClear1(t) \/ CacheClear2(t)

\* One download batch, over every batch and every pattern of failures.
NextWorker ==
  \E t \in Threads :
    \/ \E ids \in AlbumIdLists : requests = 0 /\ StartDownloadBatch(t, ids)
    \/ WorkerStep(t)
    \/ Finish(t)

\* The worker starts with no metadata file yet.
InitWorker == Init /\ metafile.state = "absent"

SpecWorker == InitWorker /\ [][NextWorker]_vars

\* The worker thread is scheduled whenever it can take a step, and the calls
\* it has made into the download capability return.
SpecWorkerFair ==
  InitWorker /\ [][NextWorker]_vars /\ \A t \in Threads : WF_vars(WorkerStep(t))

\* Listings concurrent with update_metadata and delete_manga.
NextInval ==
  \E t \in Threads :
    \/ StartScan(t, FALSE)
    \/ CacheGet1(t) \/ CacheGet2(t) \/ CacheGet3(t)
    \/ ScanLoad(t) \/ ScanDir(t)
    \/ CacheSet1(t) \/ CacheSet2(t)
    \/ \E data \in UpdateBodies : StartUpdateMetadata(t, data)
    \/ UpdLock(t) \/ UpdSave(t) \/ UpdRet(t)
    \/ \E name \in DeleteNames : StartDelete(t, name)
    \/ (\E ok \in BOOLEAN : DelRmtree(t, ok)) \/ DelRet(t)
    \/ CacheClear1(t) \/ CacheClear2(t)
    \/ Finish(t)

SpecInval == Init /\ [][NextInval]_vars

\* The writers of the metadata file, concurrently.
NextMeta ==
  \E t \in Threads :
    \/ \E data \in UpdateBodies : StartUpdateMetadata(t, data)
    \/ UpdLock(t) \/ UpdSave(t) \/ UpdRet(t)
    \/ \E updates \in BatchBodies : StartUpdateMetadataBatch(t, updates)
    \/ BatchLock(t)
    \/ StartSync(t) \/ SyncLoad(t) \/ SyncScan(t) \/ SyncLock(t)
    \/ SyncSave(t) \/ SyncRet(t)
    \/ CacheClear1(t) \/ CacheClear2(t)
    \/ Finish(t)

SpecMeta == Init /\ [][NextMeta]_vars

\* update_metadata requests, concurrently.
NextUpsert ==
  \E t \in Threads :
    \/ \E data \in UpdateBodies : StartUpdateMetadata(t, data)
    \/ UpdLock(t) \/ UpdSave(t) \/ UpdRet(t)
    \/ CacheClear1(t) \/ CacheClear2(t)
    \/ Finish(t)

SpecUpsert == Init /\ [][NextUpsert]_vars

\* update_metadata_batch requests, concurrently.
NextBatch ==
  \E t \in Threads :
    \/ \E updates \in BatchBodies : StartUpdateMetadataBatch(t, updates)
    \/ BatchLock(t) \/ UpdSave(t) \/ UpdRet(t)
    \/ CacheClear1(t) \/ CacheClear2(t)
    \/ Finish(t)

SpecBatch == Init /\ [][NextBatch]_vars

\* delete_manga requests concurrent with listings.
NextDelete ==
  \E t \in Threads :
    \/ StartScan(t, FALSE)
    \/ CacheGet1(t) \/ CacheGet2(t) \/ CacheGet3(t)
    \/ ScanLoad(t) \/ ScanDir(t)
    \/ CacheSet1(t) \/ CacheSet2(t)
    \/ \E name \in DeleteNames : StartDelete(t, name)
    \/ (\E ok \in BOOLEAN : DelRmtree(t, ok)) \/ DelRet(t)
    \/ CacheClear1(t) \/ CacheClear2(t)
    \/ Finish(t)

SpecDelete == Init /\ [][NextDelete]_vars

\* update_metadata with the save in its two steps, and one termination of
\* the process, after which nothing runs.
NextCrash ==
  \/ \E t \in Threads :
       \/ \E data \in UpdateBodies : ~gh.crashed /\ StartUpdateMetadata(t, data)
       \/ ~gh.crashed /\ UpdLock(t)
       \/ ~gh.crashed /\ UpdSaveOpen(t)
       \/ ~gh.crashed /\ UpdSaveDump(t)
       \/ ~gh.crashed /\ UpdRet(t)
       \/ ~gh.crashed /\ CacheClear1(t)
       \/ ~gh.crashed /\ CacheClear2(t)
       \/ ~gh.crashed /\ Finish(t)
  \/ Crash

SpecCrash == Init /\ [][NextCrash]_vars

\* Listings and details of one content folder, with nothing changing it.
NextScan ==
  \/ \E t \in Threads :
       \/ StartScan(t, FALSE)
       \/ CacheGet1(t) \/ CacheGet2(t) \/ CacheGet3(t)
       \/ ScanLoad(t) \/ ScanDir(t)
       \/ CacheSet1(t) \/ CacheSet2(t)
       \/ \E id \in DetailIds : StartDetail(t, id)
       \/ DetailParse(t) \/ DetailLoad(t)
       \/ Finish(t)

InitScan == fs \in ScanFolders /\ InitExceptFolders /\ metafile.state = "ok"

SpecScan == InitScan /\ [][NextScan]_vars

\* The download root at start, a folder that holds only a plain file added.
PopulateFolders ==
  InitFolders \cup
  { [n \in {NameB} |-> [sidecar |-> NoSidecar,
                        subs |-> [c \in {TopFile} |-> PlainFile]]] }
\* Batches of one item.
OneItemLists == {<<item>> : item \in RawItems}

\* Listings and details while the worker creates and fills a folder.
NextPopulate ==
  \E t \in Threads :
    \/ \E ids \in OneItemLists : requests = 0 /\ StartDownloadBatch(t, ids)
    \/ WorkerStep(t)
    \/ StartScan(t, FALSE)
    \/ CacheGet1(t) \/ CacheGet2(t) \/ CacheGet3(t)
    \/ ScanLoad(t) \/ ScanDir(t)
    \/ CacheSet1(t) \/ CacheSet2(t)
    \/ \E id \in DetailIds : StartDetail(t, id)
    \/ DetailParse(t) \/ DetailLoad(t)
    \/ Finish(t)

InitPopulate ==
  fs \in PopulateFolders /\ InitExceptFolders /\ metafile.state = "absent"

SpecPopulate == InitPopulate /\ [][NextPopulate]_vars

\* Threads that call log() at any time.
NextLog ==
  \E t \in Threads :
    \/ LogCall(t)
    \/ LogAcquire(t)
    \/ LogWrite(t)

\* Lines 1..k logged one after the other before the threads start.
OldLines(k) == [i \in 1..k |-> Line("old", i)]
Reversed(q) == [i \in 1..Len(q) |-> q[Len(q) + 1 - i]]
\* The buffer at start: empty, or so full that the next calls reach LogCap.
LogFills == {0, LogCap - 2, LogCap - 1, LogCap}

InitLog ==
  /\ pc = [t \in Threads |-> "idle"]
  /\ loc = [t \in Threads |-> InitLoc]
  /\ metafile = [state |-> "absent", data |-> EmptyDict]
  /\ fs = EmptyDict
  /\ root = TRUE
  /\ cache = [data |-> <<>>, last_updated |-> 0]
  /\ metadata_lock = 0
  /\ cache_lock = 0
  /\ log_lock = 0
  /\ now = StartTime
  /\ ticks = 0
  /\ requests = 0
  /\ \E k \in LogFills :
       /\ server_logs = Reversed(OldLines(k))
       /\ gh = [InitGh EXCEPT !.appended = OldLines(k)]

SpecLog == InitLog /\ [][NextLog]_vars

\* Numbers of items a search finds.
FoundCounts == {0, 30, 31}

\* Searches beside a download batch of one item.
NextCalls ==
  \E t \in Threads :
    \/ \E ids \in OneItemLists : requests = 0 /\ StartDownloadBatch(t, ids)
    \/ WorkerStep(t)
    \/ StartSearch(t)
    \/ \E o \in {"ok", "fallback", "raise"} : SearchOption(t, o)
    \/ \E ok \in BOOLEAN : SearchCall(t, ok)
    \/ \E ok \in BOOLEAN, found \in FoundCounts : SearchReturn(t, ok, found)
    \/ Finish(t)

SpecCalls == InitWorker /\ [][NextCalls]_vars

\* The download root with two content folders.
TwoFolders == [n \in FolderNames |-> FolderOf(NoSidecar, ChapterNames)]
\* Entries a failing scan has collected when it fails.
CollectedCounts == 0..Cardinality(FolderNames)

\* Listings, with and without refresh, whose scan may fail.
NextScanFail ==
  \E t \in Threads :
    \/ \E refresh \in BOOLEAN : StartScan(t, refresh)
    \/ CacheClear1(t) \/ CacheClear2(t)
    \/ CacheGet1(t) \/ CacheGet2(t) \/ CacheGet3(t)
    \/ ScanLoad(t) \/ ScanDir(t)
    \/ \E k \in CollectedCounts : ScanFail(t, k)
    \/ CacheSet1(t) \/ CacheSet2(t)
    \/ Finish(t)

InitScanFail == fs = TwoFolders /\ InitExceptFolders

SpecScanFail == InitScanFail /\ [][NextScanFail]_vars


\* Request bodies of /delete_manga, the two names of DOWNLOAD_DIR itself
\* among them.
DeleteRootNames == DeleteNames \cup {<<>>, <<".">>}

\* Deletes beside listings, with and without refresh, of a download root
\* with two content folders.
NextDeleteRoot ==
  \E t \in Threads :
    \/ \E refresh \in BOOLEAN : StartScan(t, refresh)
    \/ CacheGet1(t) \/ CacheGet2(t) \/ CacheGet3(t)
    \/ ScanLoad(t) \/ ScanDir(t)
    \/ CacheSet1(t) \/ CacheSet2(t)
    \/ \E name \in DeleteRootNames : StartDelete(t, name)
    \/ (\E ok \in BOOLEAN : DelRmtree(t, ok)) \/ DelRet(t)
    \/ CacheClear1(t) \/ CacheClear2(t)
    \/ Finish(t)

SpecDeleteRoot == InitScanFail /\ [][NextDeleteRoot]_vars

\* One request body for each of the metadata handlers and the download.
LockUpdateBody == [k \in {"id", "title"} |-> IF k = "id" THEN NameA ELSE TitleX]
LockBatchBody == <<LockUpdateBody>>
LockAlbumIds == <<<<"a">>>>

\* Handlers, workers and log() calls started in all.
MaxLockCalls == 2

\* The requests that start a handler, a worker or a log() call.
LockStart(t) ==
  /\ requests + gh.logCalls < MaxLockCalls
  /\ \/ StartScan(t, TRUE)
     \/ StartUpdateMetadata(t, LockUpdateBody)
     \/ StartUpdateMetadataBatch(t, LockBatchBody)
     \/ StartSync(t)
     \/ StartDetail(t, NameA)
     \/ StartDelete(t, NameA)
     \/ StartDownloadBatch(t, LockAlbumIds)
     \/ LogCall(t)

\* The steps of thread t inside a handler, a worker or log(); of the worker's
\* failures, the two that decide whether the metadata block is entered and
\* which outcome line is logged.
LockStep(t) ==
  \/ CacheGet1(t) \/ CacheGet2(t) \/ CacheGet3(t)
  \/ ScanLoad(t) \/ ScanDir(t)
  \/ CacheSet1(t) \/ CacheSet2(t)
  \/ CacheClear1(t) \/ CacheClear2(t)
  \/ UpdLock(t) \/ BatchLock(t) \/ UpdSave(t) \/ UpdRet(t)
  \/ SyncLoad(t) \/ SyncScan(t) \/ SyncLock(t) \/ SyncSave(t) \/ SyncRet(t)
  \/ DetailParse(t) \/ DetailLoad(t)
  \/ (\E ok \in BOOLEAN : DelRmtree(t, ok)) \/ DelRet(t)
  \/ WNext(t) \/ WItemFail(t)
  \/ WMkdir(t, TRUE)
  \/ WOption(t, "ok")
  \/ WFetchCall(t, TRUE)
  \/ (\E ok \in BOOLEAN : WFetchReturn(t, ok))
  \/ WSidecar(t, TRUE)
  \/ WMetaLock(t) \/ WMetaSave(t) \/ WMetaRet(t)
  \/ WDownloadCall(t)
  \/ (\E ok \in BOOLEAN : WDownloadReturn(t, ok))
  \/ WBatchLog(t)
  \/ LogAcquire(t) \/ LogWrite(t)
  \/ Finish(t)

NextLocks == \E t \in Threads : LockStart(t) \/ LockStep(t)

\* Two content folders and no metadata file yet.
InitLocks == InitScanFail /\ metafile.state = "absent"

\* The steps in which thread t takes a lock, and its steps inside a with
\* block.
CriticalStep(t) ==
  \/ ScanLoad(t) \/ DetailLoad(t) \/ SyncLoad(t)
  \/ CacheSet1(t) \/ CacheSet2(t)
  \/ CacheClear1(t) \/ CacheClear2(t)
  \/ UpdLock(t) \/ BatchLock(t) \/ UpdSave(t) \/ UpdRet(t)
  \/ SyncLock(t) \/ SyncSave(t)
  \/ WMetaLock(t) \/ WMetaSave(t) \/ WMetaRet(t)
  \/ LogAcquire(t) \/ LogWrite(t)

\* A thread that can take a lock or is inside a with block is scheduled: the
\* blocks hold no call that waits for anything but a lock, and a lock that
\* stays free is given to a thread that waits for it.  Outside the blocks a
\* thread may stay where it is for ever.
SpecLocks ==
  InitLocks /\ [][NextLocks]_vars /\ \A t \in Threads : WF_vars(CriticalStep(t))


=============================================================================
